---- MODULE Spec2Model ----
(***************************************************************************)
(* Model of package appconfig (dmotylev/appconfig): Load populates a       *)
(* struct from an ordered list of Sources (load.go), with the sources      *)
(* FromEnv (env.go), FromMap (map.go), Err (err.go), FromReader and        *)
(* FromFile (file.go).                                                     *)
(*                                                                         *)
(* Go strings are sequences of one-character strings, so that              *)
(* strings.ToUpper, strings.ToLower and the strconv parsers are computed   *)
(* character by character.  Integer fields are modelled at width 8, TLC's  *)
(* integers being 32 bits wide; a time.Duration keeps its 64 bits, as a    *)
(* sequence of digits.                                                     *)
(***************************************************************************)
EXTENDS Integers, Sequences, FiniteSets, TLC

VARIABLES
    env,          \* the process environment: variable name -> value
    made,         \* the Sources constructed so far, in construction order
    v,            \* the destination handed to Load: [shape, typ]
    rec,          \* the destination's field values (the struct in memory)
    pre,          \* rec as it was when Load was called
    s,            \* Load's variadic parameter s, the ordered source list
    pc,           \* where the caller / Load / scan stands
    i,            \* scan's loop variable over the struct's fields
    err,          \* what Load returned
    errCalls,     \* positions in s whose Err() has been called
    lookupCalls,  \* <<position in s, field index>> of every Lookup call
    files,        \* the file system: path -> what os.Open finds there
    args,         \* the argument each source of made was constructed from
    calls,        \* the number of Load calls made on the record
    prev,         \* the record and the error returned after the call before
    other         \* a second Load call, on another record and the sources s

vars == <<env, made, v, rec, pre, s, pc, i, err, errCalls, lookupCalls,
          files, args, calls, prev, other>>

(***************************************************************************)
(* Bounds of the model.                                                    *)
(***************************************************************************)
\* at most this many sources are constructed and passed to Load
MaxSources == 2

\* at most this many lines are read from a stream
MaxLines == 2

\* at most this many times is Load called on one record
MaxCalls == 2

(***************************************************************************)
(* Strings.                                                                *)
(***************************************************************************)
Lowers == <<"a","b","c","d","e","f","g","h","i","j","k","l","m",
            "n","o","p","q","r","s","t","u","v","w","x","y","z">>

Uppers == <<"A","B","C","D","E","F","G","H","I","J","K","L","M",
            "N","O","P","Q","R","S","T","U","V","W","X","Y","Z">>

Digits == <<"0","1","2","3","4","5","6","7","8","9">>

IsIn(c, alphabet) == \E k \in 1..Len(alphabet) : alphabet[k] = c

IndexOf(c, alphabet) == CHOOSE k \in 1..Len(alphabet) : alphabet[k] = c

\* str without its first n characters
Drop(str, n) == SubSeq(str, n + 1, Len(str))

\* str starts with character c
startsWith(str, c) == Len(str) >= 1 /\ str[1] = c

Min(S) == CHOOSE x \in S : \A y \in S : x <= y

Max(S) == CHOOSE x \in S : \A y \in S : x >= y

\* the characters of the model's strings
Chars == { Lowers[k] : k \in 1..26 } \cup { Uppers[k] : k \in 1..26 }
            \cup { Digits[k] : k \in 1..10 } \cup { "_", "-", "+", ".", "=", " " }

\* unicode.ToUpper and unicode.ToLower, on ASCII
UpperOf == [c \in Chars |-> IF IsIn(c, Lowers) THEN Uppers[IndexOf(c, Lowers)] ELSE c]
LowerOf == [c \in Chars |-> IF IsIn(c, Uppers) THEN Lowers[IndexOf(c, Uppers)] ELSE c]

\* strings.ToUpper
ToUpper(str) == [k \in 1..Len(str) |-> UpperOf[str[k]]]

\* strings.ToLower
ToLower(str) == [k \in 1..Len(str) |-> LowerOf[str[k]]]

\* the string literals the model uses
sEmpty == << >>
s1 == <<"1">>
sErr == <<"E","r","r">>
sOwl == <<"o","w","l">>
s80 == <<"8","0">>
sTrue == <<"t","r","u","e">>
sX == <<"x">>
sApp == <<"a","p","p","_">>

(***************************************************************************)
(* strconv.                                                                *)
(***************************************************************************)
\* 1 << n
RECURSIVE Pow2(_)
Pow2(n) == IF n = 0 THEN 1 ELSE 2 * Pow2(n - 1)

ErrSyntax == "invalid syntax"
ErrRange == "value out of range"

\* &strconv.NumError{Func, Num, Err}
NumError(fn, str, e) == [Func |-> fn, Num |-> str, Err |-> e]

NoError == [Func |-> "", Num |-> sEmpty, Err |-> ""]

\* The digit loop of strconv.ParseUint(str, 10, bitSize) from position k with
\* n accumulated so far: a character that is no digit is a syntax error, a
\* value above 1<<bitSize - 1 a range error, whichever the loop meets first.
\* (The loop's guard n >= cutoff, cutoff = MaxUint64/10 + 1, cannot fire
\* before n1 > maxVal does at widths below 64.)
RECURSIVE ParseUintLoop(_, _, _, _)
ParseUintLoop(str, k, n, maxVal) ==
    IF k > Len(str) THEN [val |-> n, e |-> ""]
    ELSE IF ~IsIn(str[k], Digits) THEN [val |-> 0, e |-> ErrSyntax]
    ELSE LET n1 == n * 10 + (IndexOf(str[k], Digits) - 1)
         IN  IF n1 > maxVal THEN [val |-> maxVal, e |-> ErrRange]
             ELSE ParseUintLoop(str, k + 1, n1, maxVal)

\* mutant: the width of the destination is not looked at
ParseUint_AnyWidth(str, bitSize) ==
    IF str = sEmpty THEN [val |-> 0, err |-> NumError("ParseUint", str, ErrSyntax)]
    ELSE LET r == ParseUintLoop(str, 1, 0, Pow2(24) - 1)
         IN  [val |-> r.val,
              err |-> IF r.e = "" THEN NoError ELSE NumError("ParseUint", str, r.e)]

\* strconv.ParseUint(str, 10, bitSize): [val, err]
ParseUint(str, bitSize) ==
    IF str = sEmpty THEN [val |-> 0, err |-> NumError("ParseUint", str, ErrSyntax)]
    ELSE LET r == ParseUintLoop(str, 1, 0, Pow2(bitSize) - 1)
         IN  [val |-> r.val,
              err |-> IF r.e = "" THEN NoError ELSE NumError("ParseUint", str, r.e)]

\* strconv.ParseInt(str, 10, bitSize): [val, err]
ParseInt(str, bitSize) ==
    IF str = sEmpty THEN [val |-> 0, err |-> NumError("ParseInt", str, ErrSyntax)]
    ELSE LET neg == str[1] = "-"
             body == IF str[1] = "+" \/ str[1] = "-" THEN Tail(str) ELSE str
             un == ParseUint(body, bitSize)
             cutoff == Pow2(bitSize) \div 2
         IN  IF un.err # NoError /\ un.err.Err # ErrRange
                 THEN [val |-> 0, err |-> NumError("ParseInt", str, un.err.Err)]
             ELSE IF ~neg /\ un.val >= cutoff
                 THEN [val |-> cutoff - 1, err |-> NumError("ParseInt", str, ErrRange)]
             ELSE IF neg /\ un.val > cutoff
                 THEN [val |-> -cutoff, err |-> NumError("ParseInt", str, ErrRange)]
             ELSE [val |-> IF neg THEN -un.val ELSE un.val, err |-> NoError]

\* strconv.ParseBool(str): [val, err]
ParseBool(str) ==
    IF str \in {<<"1">>, <<"t">>, <<"T">>, <<"t","r","u","e">>,
                <<"T","R","U","E">>, <<"T","r","u","e">>}
        THEN [val |-> TRUE, err |-> NoError]
    ELSE IF str \in {<<"0">>, <<"f">>, <<"F">>, <<"f","a","l","s","e">>,
                     <<"F","A","L","S","E">>, <<"F","a","l","s","e">>}
        THEN [val |-> FALSE, err |-> NoError]
    ELSE [val |-> FALSE, err |-> NumError("ParseBool", str, ErrSyntax)]

(***************************************************************************)
(* time.ParseDuration.  A duration is an int64 count of nanoseconds, past  *)
(* the integers of TLC: a magnitude is the sequence of its digits in base  *)
(* 10^6, least significant first, without leading zeros (<< >> is 0), and  *)
(* a Duration is a sign and a magnitude.                                   *)
(***************************************************************************)
Limb == 1000000

RECURSIVE Norm(_)
Norm(b) == IF b # << >> /\ b[Len(b)] = 0 THEN Norm(SubSeq(b, 1, Len(b) - 1)) ELSE b

\* b * m + carry, for m and carry up to 2000
RECURSIVE MulSmall(_, _, _)
MulSmall(b, m, carry) ==
    IF b = << >> THEN (IF carry = 0 THEN << >> ELSE <<carry>>)
    ELSE LET x == b[1] * m + carry
         IN  <<x % Limb>> \o MulSmall(Tail(b), m, x \div Limb)

\* a + b + carry
RECURSIVE Add(_, _, _)
Add(a, b, carry) ==
    IF a = << >> /\ b = << >> THEN (IF carry = 0 THEN << >> ELSE <<carry>>)
    ELSE LET x == (IF a = << >> THEN 0 ELSE a[1]) + (IF b = << >> THEN 0 ELSE b[1]) + carry
         IN  <<x % Limb>> \o Add(IF a = << >> THEN a ELSE Tail(a),
                                 IF b = << >> THEN b ELSE Tail(b), x \div Limb)

\* a > b
RECURSIVE Greater(_, _)
Greater(a, b) ==
    IF Len(a) # Len(b) THEN Len(a) > Len(b)
    ELSE IF a = << >> THEN FALSE
    ELSE IF a[Len(a)] # b[Len(b)] THEN a[Len(a)] > b[Len(b)]
    ELSE Greater(Norm(SubSeq(a, 1, Len(a) - 1)), Norm(SubSeq(b, 1, Len(b) - 1)))

\* the limbs of b from position k down, divided by m with remainder r
\* carried in: the quotient's limbs up to k
RECURSIVE DivFrom(_, _, _, _)
DivFrom(b, m, k, r) ==
    IF k = 0 THEN << >>
    ELSE LET x == r * Limb + b[k]
         IN  Append(DivFrom(b, m, k - 1, x % m), x \div m)

\* floor(b / m), for m up to 2000
DivSmall(b, m) == Norm(DivFrom(b, m, Len(b), 0))

\* b mod m, for m up to 2000
RECURSIVE ModSmall(_, _)
ModSmall(b, m) ==
    IF b = << >> THEN 0
    ELSE (ModSmall(Tail(b), m) * (Limb % m) + b[1]) % m

\* the value of the first n characters of str, all digits
RECURSIVE FromDigits(_, _)
FromDigits(str, n) ==
    IF n = 0 THEN << >>
    ELSE MulSmall(FromDigits(str, n - 1), 10, IndexOf(str[n], Digits) - 1)

\* b multiplied by each factor of fs in turn
RECURSIVE MulAll(_, _)
MulAll(b, fs) == IF fs = << >> THEN b ELSE MulAll(MulSmall(b, fs[1], 0), Tail(fs))

\* b divided by 10, n times
RECURSIVE DivTens(_, _)
DivTens(b, n) == IF n = 0 THEN b ELSE DivTens(DivSmall(b, 10), n - 1)

\* 1<<63 and 1<<63 - 1
TwoTo63 == <<775808, 36854, 223372, 9>>
MaxInt64 == <<775807, 36854, 223372, 9>>

Duration(neg, mag) == [neg |-> neg /\ mag # << >>, mag |-> mag]

ZeroDuration == Duration(FALSE, << >>)

\* unitMap: a unit's nanoseconds as a product of small factors (the keys
\* with the letter mu are not strings of this model)
unitNames == { <<"n","s">>, <<"u","s">>, <<"m","s">>, <<"s">>, <<"m">>, <<"h">> }

unitMap(u) ==
    CASE u = <<"n","s">> -> << >>
      [] u = <<"u","s">> -> <<1000>>
      [] u = <<"m","s">> -> <<1000, 1000>>
      [] u = <<"s">> -> <<1000, 1000, 1000>>
      [] u = <<"m">> -> <<1000, 1000, 1000, 60>>
      [] u = <<"h">> -> <<1000, 1000, 1000, 60, 60>>

ErrInvalidDuration == "invalid duration"
ErrMissingUnit == "missing unit in duration"
ErrUnknownUnit == "unknown unit in duration"

\* the number of leading characters of str that satisfy Ok
RECURSIVE LeadLen(_, _)
LeadLen(str, alphabet) ==
    IF str = sEmpty \/ ~IsIn(str[1], alphabet) THEN 0
    ELSE 1 + LeadLen(Tail(str), alphabet)

\* the characters that end a unit: '.' and the digits
UnitEnd == Digits \o <<".">>

\* the number of leading characters of str up to the next '.' or digit
RECURSIVE UnitLen(_)
UnitLen(str) ==
    IF str = sEmpty \/ IsIn(str[1], UnitEnd) THEN 0 ELSE 1 + UnitLen(Tail(str))

\* leadingFraction: the number of digits after a '.' that r1 starts with
fracLen(r1) == IF startsWith(r1, ".") THEN LeadLen(Drop(r1, 1), Digits) ELSE 0

\* r1 without the '.' and the digits it starts with
afterFrac(r1) == IF startsWith(r1, ".") THEN Drop(r1, 1 + fracLen(r1)) ELSE r1

\* the nanoseconds of fl fraction digits fr in the unit of factors fs,
\* uint64(float64(f) * (float64(unit) / scale)) computed exactly
fracPart(fr, fl, fs) == DivTens(MulAll(FromDigits(fr, fl), fs), fl)

\* a term's nanoseconds: vi units of factors fs and the fraction's share
\* part, each sum within 1<<63
termSum(whole, part, rest) ==
    IF Greater(whole, TwoTo63) \/ Greater(Add(whole, part, 0), TwoTo63)
        THEN [e |-> ErrInvalidDuration, ns |-> << >>, rest |-> sEmpty]
    ELSE [e |-> "", ns |-> Add(whole, part, 0), rest |-> rest]

\* one term with its unit u read: vi before the '.', nf digits of fr after
termIn(vi, fr, nf, u, rest) ==
    IF u = sEmpty THEN [e |-> ErrMissingUnit, ns |-> << >>, rest |-> sEmpty]
    ELSE IF u \notin unitNames THEN [e |-> ErrUnknownUnit, ns |-> << >>, rest |-> sEmpty]
    ELSE termSum(MulAll(vi, unitMap(u)), fracPart(fr, nf, unitMap(u)), rest)

\* one term with its number read: n digits, nf digits after the '.', r3
\* what follows the number
termUnit(str, n, fr, nf, r3) ==
    IF Greater(FromDigits(str, n), TwoTo63) \/ (n = 0 /\ nf = 0)
        THEN [e |-> ErrInvalidDuration, ns |-> << >>, rest |-> sEmpty]
    ELSE termIn(FromDigits(str, n), fr, nf, SubSeq(r3, 1, UnitLen(r3)),
                Drop(r3, UnitLen(r3)))

\* one term [0-9]*(\.[0-9]*)?[a-z]+ at the start of str, n digits before
\* the '.', r1 what follows them: [e, ns, rest]
termOf(str, n, r1) == termUnit(str, n, Drop(r1, 1), fracLen(r1), afterFrac(r1))

\* the loop of ParseDuration over the terms of str, with d nanoseconds so
\* far: [d, e]
RECURSIVE parseTerms(_, _)

\* d += v and the next term
summed(rest, sum) ==
    IF Greater(sum, TwoTo63) THEN [d |-> << >>, e |-> ErrInvalidDuration]
    ELSE parseTerms(rest, sum)

afterTerm(d, tm) ==
    IF tm.e # "" THEN [d |-> << >>, e |-> tm.e] ELSE summed(tm.rest, Add(d, tm.ns, 0))

parseTerms(str, d) ==
    IF str = sEmpty THEN [d |-> d, e |-> ""]
    ELSE IF ~IsIn(str[1], UnitEnd) THEN [d |-> << >>, e |-> ErrInvalidDuration]
    ELSE afterTerm(d, termOf(str, LeadLen(str, Digits), Drop(str, LeadLen(str, Digits))))

\* the end of ParseDuration: r is what the loop returned
durationOf(str, neg, r) ==
    IF r.e # "" THEN [val |-> ZeroDuration, err |-> NumError("time.ParseDuration", str, r.e)]
    ELSE IF ~neg /\ Greater(r.d, MaxInt64)
        THEN [val |-> ZeroDuration,
              err |-> NumError("time.ParseDuration", str, ErrInvalidDuration)]
    ELSE [val |-> Duration(neg, r.d), err |-> NoError]

\* ParseDuration after the sign: body is str without it
parseUnsigned(str, neg, body) ==
    IF body = <<"0">> THEN [val |-> ZeroDuration, err |-> NoError]
    ELSE IF body = sEmpty
        THEN [val |-> ZeroDuration,
              err |-> NumError("time.ParseDuration", str, ErrInvalidDuration)]
    ELSE durationOf(str, neg, parseTerms(body, << >>))

\* time.ParseDuration(str): [val, err]
ParseDuration(str) ==
    IF str # sEmpty /\ str[1] \in {"-", "+"} THEN parseUnsigned(str, str[1] = "-", Tail(str))
    ELSE parseUnsigned(str, FALSE, str)

(***************************************************************************)
(* time.Parse, for the layouts of this package: a `time,format` tag of     *)
(* "2006-01-02" and the default time.UnixDate.                             *)
(***************************************************************************)
\* the layout "2006-01-02" and time.UnixDate, "Mon Jan _2 15:04:05 MST 2006"
lDate == <<"2","0","0","6","-","0","1","-","0","2">>
UnixDate == <<"M","o","n"," ","J","a","n"," ","_","2"," ","1","5",":","0","4",
              ":","0","5"," ","M","S","T"," ","2","0","0","6">>

shortDayNames == << <<"s","u","n">>, <<"m","o","n">>, <<"t","u","e">>,
                    <<"w","e","d">>, <<"t","h","u">>, <<"f","r","i">>,
                    <<"s","a","t">> >>
shortMonthNames == << <<"j","a","n">>, <<"f","e","b">>, <<"m","a","r">>,
                      <<"a","p","r">>, <<"m","a","y">>, <<"j","u","n">>,
                      <<"j","u","l">>, <<"a","u","g">>, <<"s","e","p">>,
                      <<"o","c","t">>, <<"n","o","v">>, <<"d","e","c">> >>

\* the zero time.Time
ZeroTime == [year |-> 1, month |-> 1, day |-> 1, hour |-> 0, min |-> 0,
             sec |-> 0, zone |-> <<"U","T","C">>]

\* the *time.ParseError messages
ErrBadTime == "cannot parse"
ErrExtraText == "extra text"
ErrMonthRange == "month out of range"
ErrDayRange == "day out of range"
ErrHourRange == "hour out of range"
ErrMinuteRange == "minute out of range"
ErrSecondRange == "second out of range"

\* the first n characters of str are digits
isDigits(str, n) == Len(str) >= n /\ \A k \in 1..n : IsIn(str[k], Digits)

\* atoi of the first n characters of str, all digits
RECURSIVE atoi(_, _)
atoi(str, n) ==
    IF n = 0 THEN 0 ELSE atoi(str, n - 1) * 10 + (IndexOf(str[n], Digits) - 1)

\* getnum(s, fixed): one digit, or two when a second follows; fixed asks
\* for two.  [ok, val, rest]
getnum(str, fixed) ==
    IF ~isDigits(str, 1) THEN [ok |-> FALSE, val |-> 0, rest |-> str]
    ELSE IF ~isDigits(str, 2)
        THEN [ok |-> ~fixed, val |-> atoi(str, 1), rest |-> Drop(str, 1)]
    ELSE [ok |-> TRUE, val |-> atoi(str, 2), rest |-> Drop(str, 2)]

\* lookup(tab, val): the index of the name that val starts with, letter
\* case ignored, 0 when there is none
lookupName(tab, str) ==
    IF Len(str) < 3 \/ \E k \in 1..3 : ~IsIn(str[k], Lowers \o Uppers) THEN 0
    ELSE LET hits == { k \in 1..Len(tab) : tab[k] = ToLower(SubSeq(str, 1, 3)) }
         IN  IF hits = {} THEN 0 ELSE CHOOSE k \in hits : TRUE

isLeap(year) == year % 4 = 0 /\ (year % 100 # 0 \/ year % 400 = 0)

daysIn(month, year) ==
    IF month = 2 THEN (IF isLeap(year) THEN 29 ELSE 28)
    ELSE IF month \in {4, 6, 9, 11} THEN 30 ELSE 31

\* the end of Parse: no text may be left and the day must exist
finishTime(value, rest, tm) ==
    IF rest # sEmpty THEN [val |-> ZeroTime, err |-> NumError("time.Parse", value, ErrExtraText)]
    ELSE IF tm.day < 1 \/ tm.day > daysIn(tm.month, tm.year)
        THEN [val |-> ZeroTime, err |-> NumError("time.Parse", value, ErrDayRange)]
    ELSE [val |-> tm, err |-> NoError]

badTime(value, msg) == [val |-> ZeroTime, err |-> NumError("time.Parse", value, msg)]

\* time.Parse("2006-01-02", value)
parseDate(value) ==
    IF ~isDigits(value, 4) THEN badTime(value, ErrBadTime)
    ELSE LET year == atoi(value, 4)
             r1 == Drop(value, 4)
         IN  IF ~startsWith(r1, "-") THEN badTime(value, ErrBadTime)
             ELSE LET m == getnum(Drop(r1, 1), TRUE)
                  IN  IF ~m.ok THEN badTime(value, ErrBadTime)
                      ELSE IF m.val <= 0 \/ 12 < m.val THEN badTime(value, ErrMonthRange)
                      ELSE IF ~startsWith(m.rest, "-") THEN badTime(value, ErrBadTime)
                      ELSE LET d == getnum(Drop(m.rest, 1), TRUE)
                           IN  IF ~d.ok THEN badTime(value, ErrBadTime)
                               ELSE finishTime(value, d.rest,
                                               [ZeroTime EXCEPT !.year = year,
                                                                !.month = m.val,
                                                                !.day = d.val])

\* time.Parse(time.UnixDate, value), from the clock on: rest follows the day
parseClock(value, rest, tm) ==
    LET h == getnum(rest, FALSE)
    IN  IF ~h.ok THEN badTime(value, ErrBadTime)
        ELSE IF 24 <= h.val THEN badTime(value, ErrHourRange)
        ELSE IF ~startsWith(h.rest, ":") THEN badTime(value, ErrBadTime)
        ELSE LET mi == getnum(Drop(h.rest, 1), TRUE)
             IN  IF ~mi.ok THEN badTime(value, ErrBadTime)
                 ELSE IF 60 <= mi.val THEN badTime(value, ErrMinuteRange)
                 ELSE IF ~startsWith(mi.rest, ":") THEN badTime(value, ErrBadTime)
                 ELSE LET se == getnum(Drop(mi.rest, 1), TRUE)
                          z == Drop(se.rest, 1)
                          y == Drop(z, 4)
                      IN  IF ~se.ok THEN badTime(value, ErrBadTime)
                          ELSE IF 60 <= se.val THEN badTime(value, ErrSecondRange)
                          ELSE IF ~startsWith(se.rest, " ") THEN badTime(value, ErrBadTime)
                          \* a zone of three upper-case letters (the longer
                          \* forms Parse also takes are not among the values)
                          ELSE IF Len(z) < 3 \/ \E k \in 1..3 : ~IsIn(z[k], Uppers)
                              THEN badTime(value, ErrBadTime)
                          ELSE IF ~startsWith(Drop(z, 3), " ") THEN badTime(value, ErrBadTime)
                          ELSE IF ~isDigits(y, 4) THEN badTime(value, ErrBadTime)
                          ELSE finishTime(value, Drop(y, 4),
                                          [tm EXCEPT !.hour = h.val, !.min = mi.val,
                                                     !.sec = se.val,
                                                     !.zone = SubSeq(z, 1, 3),
                                                     !.year = atoi(y, 4)])

\* time.Parse(time.UnixDate, value)
parseUnixDate(value) ==
    LET wd == lookupName(shortDayNames, value)
        r1 == Drop(value, 3)
        mo == lookupName(shortMonthNames, Drop(r1, 1))
        r2 == Drop(r1, 4)
        r3 == IF startsWith(Drop(r2, 1), " ") THEN Drop(r2, 2) ELSE Drop(r2, 1)
        d == getnum(r3, FALSE)
    IN  IF wd = 0 THEN badTime(value, ErrBadTime)
        ELSE IF ~startsWith(r1, " ") \/ mo = 0 THEN badTime(value, ErrBadTime)
        ELSE IF ~startsWith(r2, " ") \/ ~d.ok THEN badTime(value, ErrBadTime)
        ELSE IF ~startsWith(d.rest, " ") THEN badTime(value, ErrBadTime)
        ELSE parseClock(value, Drop(d.rest, 1), [ZeroTime EXCEPT !.month = mo, !.day = d.val])

\* time.Parse(layout, value): [val, err]
ParseTime(layout, value) ==
    IF layout = lDate THEN parseDate(value) ELSE parseUnixDate(value)

(***************************************************************************)
(* The destination: struct types and their fields (reflect.StructField).   *)
(***************************************************************************)
nString == <<"S","t","r","i","n","g">>
nUint == <<"U","i","n","t">>
nInt == <<"I","n","t">>
nBool == <<"B","o","o","l">>
nStruct == <<"S","t","r","u","c","t">>
nNonSetable == <<"n","o","n","S","e","t","a","b","l","e">>

\* one field of a struct type: its name, reflect.Kind, type name, width in
\* bits and `default:"..."` tag (sEmpty when the field has none); the
\* package of its type and its `time,format:"..."` tag are those of a type
\* declared in the caller's package and of no tag
Field(name, kind, typeName, bits, dflt) ==
    [Name |-> name, Kind |-> kind, TypeName |-> typeName, Bits |-> bits,
     Default |-> dflt, Pkg |-> "main", Format |-> sEmpty]

\* a field of a struct type named typeName of package pkg, with its
\* `default` and `time,format` tags
StructField(name, typeName, pkg, dflt, format) ==
    [Field(name, "struct", typeName, 0, dflt) EXCEPT !.Pkg = pkg, !.Format = format]

\* type Fields of the tests, its integer fields at width 8
Fields ==
    << Field(nString, "string", "string", 0, sEmpty),
       Field(nUint, "uint8", "uint8", 8, sEmpty),
       Field(nInt, "int8", "int8", 8, sEmpty),
       Field(nBool, "bool", "bool", 0, sEmpty),
       Field(nStruct, "struct", "DummyStruct", 0, sEmpty),
       Field(nNonSetable, "int8", "int8", 8, sEmpty) >>

\* the same fields declared with default tags, as in the struct of
\* TestLoad_FromEnvWithDefault
Tagged ==
    << Field(nString, "string", "string", 0, sOwl),
       Field(nUint, "uint8", "uint8", 8, s80),
       Field(nInt, "int8", "int8", 8, sEmpty),
       Field(nBool, "bool", "bool", 0, sTrue),
       Field(nStruct, "struct", "DummyStruct", 0, sX),
       Field(nNonSetable, "int8", "int8", 8, s1) >>

\* a struct whose second default tag is no number
BadTag ==
    << Field(nString, "string", "string", 0, sOwl),
       Field(nUint, "uint8", "uint8", 8, sErr) >>

nStamp == <<"S","t","a","m","p">>
nDay == <<"D","a","y">>
nSeen == <<"S","e","e","n">>

sDate == <<"2","0","1","5","-","0","2","-","0","3">>
sBadDay == <<"2","0","1","5","-","0","2","-","3","0">>
sUnix == <<"F","r","i"," ","D","e","c"," ","1","3"," ","0","0",":","0","0",
           ":","0","0"," ","U","T","C"," ","2","0","1","3">>

\* a struct with fields of struct types: DummyStruct, a type named Time
\* that the caller's package declares, and time.Time with and without a
\* `time,format` tag
Dated ==
    << StructField(nStruct, "DummyStruct", "main", sEmpty, sEmpty),
       StructField(nStamp, "Time", "main", sEmpty, lDate),
       StructField(nDay, "Time", "time", sEmpty, lDate),
       StructField(nSeen, "Time", "time", sEmpty, sEmpty) >>

\* the first two of them, with default tags
Stamped ==
    << StructField(nStruct, "DummyStruct", "main", sX, sEmpty),
       StructField(nStamp, "Time", "main", sDate, lDate) >>

nTimeout == <<"T","i","m","e","o","u","t">>
nWorkerName == <<"W","o","r","k","e","r","N","a","m","e">>
nNumWorkers == <<"N","u","m","W","o","r","k","e","r","s">>

\* the struct of the README's usage, NumWorkers at width 8
Conf ==
    << [Field(nTimeout, "int64", "Duration", 64, sEmpty) EXCEPT !.Pkg = "time"],
       StructField(nDay, "Time", "time", sEmpty, lDate),
       Field(nWorkerName, "string", "string", 0, sEmpty),
       Field(nNumWorkers, "int8", "int", 8, sEmpty) >>

nUint16 == <<"U","i","n","t","1","6">>
nInt16 == <<"I","n","t","1","6">>
nNap == <<"N","a","p">>

s1h2m3s == <<"1","h","2","m","3","s">>
s255 == <<"2","5","5">>
s256 == <<"2","5","6">>
sMinus1 == <<"-","1">>
sPlus1 == <<"+","1">>
s127 == <<"1","2","7">>
s128 == <<"1","2","8">>
sMinus128 == <<"-","1","2","8">>
sMinus129 == <<"-","1","2","9">>
sPlus5 == <<"+","5">>
s65535 == <<"6","5","5","3","5">>
s65536 == <<"6","5","5","3","6">>
s32767 == <<"3","2","7","6","7">>
s32768 == <<"3","2","7","6","8">>
sMinus32768 == <<"-","3","2","7","6","8">>
sMinus32769 == <<"-","3","2","7","6","9">>
s127ns == <<"1","2","7","n","s">>
s128ns == <<"1","2","8","n","s">>
s300ns == <<"3","0","0","n","s">>
sMinus128ns == <<"-","1","2","8","n","s">>
sMinus129ns == <<"-","1","2","9","n","s">>
s1us == <<"1","u","s">>

\* a struct with integer fields of widths 8 and 16, a time.Duration, a
\* field of a type Duration int8 that the caller's package declares, a
\* bool and a time.Time, some of them with default tags
Sized ==
    << Field(nString, "string", "string", 0, sOwl),
       Field(nUint, "uint8", "uint8", 8, s80),
       Field(nInt, "int8", "int8", 8, sEmpty),
       Field(nUint16, "uint16", "uint16", 16, sEmpty),
       Field(nInt16, "int16", "int16", 16, sEmpty),
       Field(nBool, "bool", "bool", 0, sTrue),
       [Field(nTimeout, "int64", "Duration", 64, s1us) EXCEPT !.Pkg = "time"],
       Field(nNap, "int8", "Duration", 8, sEmpty),
       StructField(nDay, "Time", "time", sDate, lDate) >>

\* reflect.Type.Field(i) for the struct type named typ
TypeFields(typ) == IF typ = "Fields" THEN Fields
                   ELSE IF typ = "Tagged" THEN Tagged
                   ELSE IF typ = "BadTag" THEN BadTag
                   ELSE IF typ = "Dated" THEN Dated
                   ELSE IF typ = "Stamped" THEN Stamped
                   ELSE IF typ = "Conf" THEN Conf
                   ELSE IF typ = "Sized" THEN Sized
                   ELSE << >>

\* mutant: every field can be set
CanSet_Always(f) == TRUE

\* reflect.Value.CanSet of a field reached through a pointer: the field is
\* exported, i.e. its name starts with an upper-case letter
CanSet(f) == IsIn(f.Name[1], Uppers)

ZeroValue == << sEmpty, 0, 0, FALSE, "DummyStruct{}", 0 >>
Prefilled == << sX, 9, -9, TRUE, "DummyStruct{}", 5 >>

\* the destinations a caller hands to Load: &f, f (a struct by value), &n
\* and n (an int)
Dests ==
    { [ptr |-> TRUE, kind |-> "struct", typ |-> "Fields", val |-> Prefilled],
      [ptr |-> TRUE, kind |-> "struct", typ |-> "Tagged", val |-> ZeroValue],
      [ptr |-> TRUE, kind |-> "struct", typ |-> "BadTag", val |-> <<sX, 9>>],
      [ptr |-> FALSE, kind |-> "struct", typ |-> "Fields", val |-> Prefilled],
      [ptr |-> TRUE, kind |-> "int", typ |-> "int", val |-> << >>],
      [ptr |-> FALSE, kind |-> "int", typ |-> "int", val |-> << >>] }

\* records with fields of struct types, zeroed
StructDests ==
    { [ptr |-> TRUE, kind |-> "struct", typ |-> "Dated",
       val |-> << "DummyStruct{}", "Time{}", ZeroTime, ZeroTime >>],
      [ptr |-> TRUE, kind |-> "struct", typ |-> "Stamped",
       val |-> << "DummyStruct{}", "Time{}" >>] }

\* var conf of the README's usage
ConfDests ==
    { [ptr |-> TRUE, kind |-> "struct", typ |-> "Conf",
       val |-> << ZeroDuration, ZeroTime, sEmpty, 0 >>] }

\* a record of type Sized with a value in every field
SizedDests ==
    { [ptr |-> TRUE, kind |-> "struct", typ |-> "Sized",
       val |-> << sX, 9, -9, 9, -9, FALSE, Duration(FALSE, <<5>>), 5,
                  [ZeroTime EXCEPT !.year = 2013] >>] }

\* the records of a second call
OtherDests ==
    { [ptr |-> TRUE, kind |-> "struct", typ |-> "Fields", val |-> Prefilled],
      [ptr |-> TRUE, kind |-> "struct", typ |-> "BadTag", val |-> <<sX, 9>>] }

\* the record of the first call, when there is a second
SharedDests == { [ptr |-> TRUE, kind |-> "struct", typ |-> "Tagged", val |-> ZeroValue] }

(***************************************************************************)
(* Errors.                                                                 *)
(***************************************************************************)
NilErr == [t |-> "nil"]

\* errors a caller wraps with Err(e), or a reader fails with
ErrTimeout == [t |-> "error", msg |-> "timeout"]
ErrTooLong == [t |-> "error", msg |-> "bufio.Scanner: token too long"]

TerminalErrors == {ErrTimeout, ErrTooLong}

\* &Error{typ, fld, kind, val, cause}
Error(typ, fld, kind, val, cause) ==
    [t |-> "Error", typ |-> typ, fld |-> fld, kind |-> kind, val |-> val,
     cause |-> cause]

(***************************************************************************)
(* Sources.                                                                *)
(***************************************************************************)
\* os.LookupEnv(key) in environment e
LookupEnv(e, key) ==
    IF key \in DOMAIN e THEN [v |-> e[key], found |-> TRUE]
    ELSE [v |-> sEmpty, found |-> FALSE]

envSrc_Err(src) == NilErr

\* mutant: the prefix is used as the caller wrote it
envSrc_Lookup_AsGiven(src, e, f) == LookupEnv(e, src.prefix \o ToUpper(f.Name))

envSrc_Lookup(src, e, f) == LookupEnv(e, ToUpper(src.prefix \o f.Name))

mapSrc_Err(src) == NilErr

mapSrc_Lookup(src, f) ==
    IF ToLower(f.Name) \in DOMAIN src.m
        THEN [v |-> src.m[ToLower(f.Name)], found |-> TRUE]
    ELSE [v |-> sEmpty, found |-> FALSE]

errSrc_Err(src) == src.e

errSrc_Lookup(src, f) == [v |-> sEmpty, found |-> FALSE]

\* Source.Err() by dynamic dispatch
SourceErr(src) ==
    CASE src.kind = "envSrc" -> envSrc_Err(src)
      [] src.kind = "mapSrc" -> mapSrc_Err(src)
      [] src.kind = "errSrc" -> errSrc_Err(src)

\* Source.Lookup(f) by dynamic dispatch, in environment e
SourceLookup(src, e, f) ==
    CASE src.kind = "envSrc" -> envSrc_Lookup(src, e, f)
      [] src.kind = "mapSrc" -> mapSrc_Lookup(src, f)
      [] src.kind = "errSrc" -> errSrc_Lookup(src, f)

(***************************************************************************)
(* What the caller may supply: environments, maps, prefixes.               *)
(***************************************************************************)
OneKey(k, val) == [x \in {k} |-> val]

NoKeys == << >>

\* the lines of the tests' stream, as the map FromReader builds from them
\* (the numbers fit 8 bits as they are)
StreamMap ==
    [k \in { ToLower(nString), ToLower(nUint), ToLower(nInt), ToLower(nBool),
             ToLower(nStruct), ToLower(nNonSetable),
             <<"n","o","v","a","l","u","e">> } |->
        CASE k = ToLower(nString) -> <<"1","2","3",".","4">>
          [] k = ToLower(nUint) -> <<"1","2","3">>
          [] k = ToLower(nInt) -> <<"-","1","2","3">>
          [] k = ToLower(nBool) -> sTrue
          [] k = ToLower(nStruct) -> <<"D","u","m","m","y">>
          [] k = ToLower(nNonSetable) -> <<"1","2","3">>
          [] OTHER -> sEmpty]

MapKeys == { ToLower(nString), ToLower(nUint) }
MapVals == { s1, sErr }

\* the maps handed to FromMap
Maps == {NoKeys, StreamMap} \cup { OneKey(k, val) : k \in MapKeys, val \in MapVals }

Prefixes == { sApp }

EnvNames == { ToUpper(sApp \o nString), ToUpper(sApp \o nUint) }
EnvVals == { sErr, sEmpty }

\* maps that hold a value for one field of a struct type
DateMaps ==
    {NoKeys} \cup { OneKey(ToLower(k), val) : k \in {nStruct, nStamp, nDay, nSeen},
                                              val \in {sX, sDate, sBadDay, sUnix} }

\* raw values for the field named n of Sized: the empty string, and for an
\* integer field the ends of its range and their neighbours, with and
\* without a sign
SizedVals(n) ==
    CASE n = nString -> {sEmpty, s1}
      [] n = nUint -> {sEmpty, s255, s256, sMinus1, sPlus1}
      [] n = nInt -> {sEmpty, s127, s128, sMinus128, sMinus129, sPlus5}
      [] n = nUint16 -> {s65535, s65536, sMinus1}
      [] n = nInt16 -> {s32767, s32768, sMinus32768, sMinus32769}
      [] n = nBool -> {sEmpty, <<"f">>}
      [] n = nTimeout -> {sEmpty, s1h2m3s}
      [] n = nNap -> {sEmpty, s127ns, s128ns, s300ns, sMinus128ns, sMinus129ns, s1us}
      [] n = nDay -> {sEmpty, <<"2","0","1","6","-","0","2","-","2","9">>}

\* maps that hold one of them for one field of Sized
SizedMaps ==
    {NoKeys} \cup UNION { { OneKey(ToLower(Sized[x].Name), val) :
                              val \in SizedVals(Sized[x].Name) } : x \in 1..Len(Sized) }

\* maps that hold a value that converts for one field of Sized
LaterMaps ==
    { OneKey(ToLower(nString), sX), OneKey(ToLower(nUint), s1), OneKey(ToLower(nInt), s1),
      OneKey(ToLower(nBool), <<"f">>), OneKey(ToLower(nTimeout), s1h2m3s),
      OneKey(ToLower(nNap), s127ns),
      OneKey(ToLower(nDay), <<"2","0","1","6","-","0","2","-","2","9">>) }

\* the process environments: no variable, or one variable set
Envs == {NoKeys} \cup { OneKey(k, val) : k \in EnvNames, val \in EnvVals }

\* the same, and environments whose one variable has a name not all in
\* upper case, no prefix or a separator more
CasedEnvs ==
    Envs \cup { OneKey(sApp \o ToUpper(nString), s1),
                OneKey(ToUpper(nString), s1),
                OneKey(ToUpper(sApp) \o <<"_">> \o ToUpper(nString), s1) }

(***************************************************************************)
(* FromReader and FromFile (file.go).                                      *)
(***************************************************************************)
\* mutant: the key runs to the last '=' of the line
FindStringSubmatch_Greedy(l) ==
    LET eqs == { k \in 1..Len(l) : l[k] = "=" }
    IN  IF eqs = {} \/ Max(eqs) = 1
            THEN [nil |-> TRUE, key |-> sEmpty, value |-> sEmpty]
        ELSE [nil |-> FALSE, key |-> SubSeq(l, 1, Max(eqs) - 1),
              value |-> SubSeq(l, Max(eqs) + 1, Len(l))]

\* mutant: the value must not be empty
FindStringSubmatch_NeedsValue(l) ==
    LET eqs == { k \in 1..Len(l) : l[k] = "=" }
    IN  IF eqs = {} \/ Min(eqs) = 1 \/ Min(eqs) = Len(l)
            THEN [nil |-> TRUE, key |-> sEmpty, value |-> sEmpty]
        ELSE [nil |-> FALSE, key |-> SubSeq(l, 1, Min(eqs) - 1),
              value |-> SubSeq(l, Min(eqs) + 1, Len(l))]

\* keyValueRE.FindStringSubmatch(l) for ^([^=]+)=(.*)$ on one line: group 1
\* holds no '=', so it ends before the line's first '=' and needs a
\* character before it; group 2 is the rest of the line
FindStringSubmatch(l) ==
    LET eqs == { k \in 1..Len(l) : l[k] = "=" }
    IN  IF eqs = {} \/ Min(eqs) = 1
            THEN [nil |-> TRUE, key |-> sEmpty, value |-> sEmpty]
        ELSE [nil |-> FALSE, key |-> SubSeq(l, 1, Min(eqs) - 1),
              value |-> SubSeq(l, Min(eqs) + 1, Len(l))]

\* FromReader's loop over s.Scan(), from line k on, with the map m so far
RECURSIVE scanLines(_, _, _)
scanLines(lines, k, m) ==
    IF k > Len(lines) THEN m
    ELSE LET p == FindStringSubmatch(lines[k])
         IN  scanLines(lines, k + 1,
                       IF p.nil THEN m ELSE (ToLower(p.key) :> p.value) @@ m)

\* mutant: a key that the map holds already keeps its value
RECURSIVE scanLines_KeepFirst(_, _, _)
scanLines_KeepFirst(lines, k, m) ==
    IF k > Len(lines) THEN m
    ELSE LET p == FindStringSubmatch(lines[k])
         IN  scanLines_KeepFirst(lines, k + 1,
                                 IF p.nil THEN m ELSE m @@ (ToLower(p.key) :> p.value))

FromReaderSource_KeepFirst(reader) ==
    IF reader.err # NilErr THEN [kind |-> "errSrc", e |-> reader.err]
    ELSE [kind |-> "mapSrc", m |-> scanLines_KeepFirst(reader.lines, 1, NoKeys)]

\* mutant: the lines read before a read error are kept
FromReaderSource_Partial(reader) ==
    [kind |-> "mapSrc", m |-> scanLines(reader.lines, 1, NoKeys)]

\* A reader is the lines bufio.Scanner gets from it and the error its Read
\* ends with (NilErr: io.EOF).  FromReader(reader): the source returned
FromReaderSource(reader) ==
    LET m == scanLines(reader.lines, 1, NoKeys)
    IN  IF reader.err # NilErr THEN [kind |-> "errSrc", e |-> reader.err]
        ELSE [kind |-> "mapSrc", m |-> m]

\* mutant: a file that cannot be opened gives a source with that error
FromFileSource_Err(fsys, path) ==
    IF ~fsys[path].opens THEN [kind |-> "errSrc", e |-> ErrTimeout]
    ELSE FromReaderSource(fsys[path].reader)

\* FromFile(path) in file system fsys: the source returned
FromFileSource(fsys, path) ==
    IF ~fsys[path].opens THEN [kind |-> "mapSrc", m |-> NoKeys]
    ELSE FromReaderSource(fsys[path].reader)

\* the lines a stream may hold
lNovalue == <<"n","o","v","a","l","u","e","=">>
lOnlykey == <<"o","n","l","y","k","e","y">>
lUintAB == <<"u","i","n","t","=","a","=","b">>
lNoKey == <<"=","x">>
lUINT1 == <<"U","I","N","T","=","1">>
lUintErr == <<"u","i","n","t","=","E","r","r">>

LineSet == { lNovalue, lOnlykey, lUintAB, lNoKey, lUINT1, lUintErr, sEmpty }

RECURSIVE SeqsUpTo(_, _)
SeqsUpTo(S, n) ==
    IF n = 0 THEN { << >> }
    ELSE LET shorter == SeqsUpTo(S, n - 1)
         IN  shorter \cup { Append(q, x) : q \in shorter, x \in S }

\* the readers handed to FromReader: up to MaxLines lines, read to the end
\* or ending in a read error
Readers ==
    { [lines |-> ls, err |-> e] : ls \in SeqsUpTo(LineSet, MaxLines),
                                 e \in {NilErr, ErrTimeout} }

\* the file system: a path that does not exist, one that exists and cannot
\* be opened, and a file holding two lines
Files ==
    [p \in {":$:", "/root/secret", "local.conf"} |->
        IF p = "local.conf"
            THEN [opens |-> TRUE,
                  reader |-> [lines |-> <<lUINT1, lNovalue>>, err |-> NilErr]]
        ELSE [opens |-> FALSE, reader |-> [lines |-> << >>, err |-> NilErr]]]

\* prefixes that differ in letter case only, and the empty prefix
CasedPrefixes == { sApp, ToUpper(sApp), <<"A","p","p","_">>, sEmpty }

\* the README's usage: the environment variables set and the lines written
\* to local.conf
sMonkey == <<"M","o","n","k","e","y">>
ReadmeVars ==
    { <<ToUpper(sApp) \o ToUpper(nTimeout), s1h2m3s>>,
      <<ToUpper(sApp) \o ToUpper(nWorkerName), sMonkey>> }

lTimeout == ToUpper(sApp) \o ToUpper(nTimeout) \o <<"=","2","h","2","m","3","s">>
lNumWorkers == ToUpper(sApp) \o ToUpper(nNumWorkers) \o <<"=","1","0">>
lWorkerName == ToUpper(sApp) \o ToUpper(nWorkerName) \o <<"=","R","o","b","o","t">>
ReadmeLines == <<lTimeout, lNumWorkers, lWorkerName>>

\* the environment that sets the variables of S
EnvOf(S) == [k \in { p[1] : p \in S } |-> (CHOOSE p \in S : p[1] = k)[2]]

\* the environments in which some of the README's variables are set
ReadmeEnvs == { EnvOf(S) : S \in SUBSET ReadmeVars }

\* the lines of q at the positions of K, in their order
RECURSIVE Pick(_, _, _)
Pick(q, K, k) ==
    IF k > Len(q) THEN << >>
    ELSE (IF k \in K THEN <<q[k]>> ELSE << >>) \o Pick(q, K, k + 1)

\* the file systems in which local.conf holds some of the README's lines,
\* or does not exist
ReadmeFiles ==
    { [p \in {"local.conf"} |->
          [opens |-> TRUE, reader |-> [lines |-> Pick(ReadmeLines, K, 1), err |-> NilErr]]] :
        K \in SUBSET (1..Len(ReadmeLines)) }
    \cup { [p \in {"local.conf"} |->
              [opens |-> FALSE, reader |-> [lines |-> << >>, err |-> NilErr]]] }

(***************************************************************************)
(* Load and scanner (load.go).                                             *)
(***************************************************************************)
\* mutant: the kind check lets any pointer through
IndirectIsStruct_OrPtr(dest) == dest.ptr \/ dest.kind = "struct"

\* reflect.Indirect(reflect.ValueOf(v)).Kind() == reflect.Struct
IndirectIsStruct(dest) == dest.kind = "struct"

\* reflect.ValueOf(v).Elem() panics unless v is a pointer (or interface);
\* NumField panics unless what it points to is a struct
ElemPanics(dest) == ~dest.ptr \/ dest.kind # "struct"

\* mutant: only the first source's Err() is checked
scanErrs_FirstOnly(sources) ==
    IF sources # << >> /\ SourceErr(sources[1]) # NilErr
        THEN [err |-> SourceErr(sources[1]), calls |-> {1}]
    ELSE [err |-> NilErr, calls |-> IF sources = << >> THEN {} ELSE {1}]

\* mutant: the loop keeps going and the last error wins
scanErrs_Last(sources) ==
    LET bad == { k \in 1..Len(sources) : SourceErr(sources[k]) # NilErr }
    IN  [err |-> IF bad = {} THEN NilErr ELSE SourceErr(sources[Max(bad)]),
         calls |-> 1..Len(sources)]

\* the first loop of scanner.scan: the Err() of the first source that has
\* one, and the positions whose Err() was called
scanErrs(sources) ==
    LET bad == { k \in 1..Len(sources) : SourceErr(sources[k]) # NilErr }
    IN  IF bad = {} THEN [err |-> NilErr, calls |-> 1..Len(sources)]
        ELSE [err |-> SourceErr(sources[Min(bad)]), calls |-> 1..Min(bad)]

\* mutant: a later source overrides an earlier one
lookup_Last(sources, e, f) ==
    LET hits == { k \in 1..Len(sources) : SourceLookup(sources[k], e, f).found }
    IN  IF hits = {} THEN [v |-> sEmpty, found |-> FALSE, calls |-> 1..Len(sources)]
        ELSE [v |-> SourceLookup(sources[Max(hits)], e, f).v, found |-> TRUE,
              calls |-> 1..Len(sources)]

\* mutant: only the first source is asked
lookup_FirstOnly(sources, e, f) ==
    IF sources # << >> /\ SourceLookup(sources[1], e, f).found
        THEN [v |-> SourceLookup(sources[1], e, f).v, found |-> TRUE, calls |-> {1}]
    ELSE [v |-> sEmpty, found |-> FALSE,
          calls |-> IF sources = << >> THEN {} ELSE {1}]

\* mutant: a source that holds the empty string is passed over
lookup_NonEmpty(sources, e, f) ==
    LET hits == { k \in 1..Len(sources) : /\ SourceLookup(sources[k], e, f).found
                                          /\ SourceLookup(sources[k], e, f).v # sEmpty }
    IN  IF hits = {} THEN [v |-> sEmpty, found |-> FALSE, calls |-> 1..Len(sources)]
        ELSE [v |-> SourceLookup(sources[Min(hits)], e, f).v, found |-> TRUE,
              calls |-> 1..Min(hits)]

\* scanner.lookup: the value of the first source that reports found, and the
\* positions whose Lookup was called
lookup(sources, e, f) ==
    LET hits == { k \in 1..Len(sources) : SourceLookup(sources[k], e, f).found }
    IN  IF hits = {} THEN [v |-> sEmpty, found |-> FALSE, calls |-> 1..Len(sources)]
        ELSE [v |-> SourceLookup(sources[Min(hits)], e, f).v, found |-> TRUE,
              calls |-> 1..Min(hits)]

\* mutant: a field with neither value nor default is not skipped
resolve_NoSkip(l, f) ==
    IF l.found THEN [skip |-> FALSE, vString |-> l.v]
    ELSE [skip |-> FALSE, vString |-> f.Default]

\* scan, after lookup: the raw string to convert (the looked-up value, else
\* the default tag), or skip when there is neither
resolve(l, f) ==
    IF l.found THEN [skip |-> FALSE, vString |-> l.v]
    ELSE [skip |-> f.Default = sEmpty, vString |-> f.Default]

IsUintKind(k) == k \in {"uint", "uint8", "uint16", "uint32", "uint64"}
IsIntKind(k) == k \in {"int", "int8", "int16", "int32", "int64"}

\* reflect.Value.SetInt(int64(d)) on a field of the given width: the 64
\* bits as they are, else the low bits of d as a signed integer (widths
\* up to 8 in this model)
SetInt(d, bits) ==
    IF bits = 64 THEN d
    ELSE LET m == Pow2(bits)
             u == ModSmall(d.mag, m)
             w == IF d.neg THEN (m - u) % m ELSE u
         IN  IF w >= m \div 2 THEN w - m ELSE w

\* the end of a case of scan's switch, r being what the parser returned:
\* return the Error, else set the field
parsed(r) == [set |-> r.err = NoError, val |-> r.val, err |-> r.err, panic |-> FALSE]

\* the same for a Duration, set by f.SetInt(int64(d))
parsedDuration(r, bits) ==
    [set |-> r.err = NoError, val |-> SetInt(r.val, bits), err |-> r.err, panic |-> FALSE]

\* the same for a struct type named Time of package pkg, set by
\* f.Set(reflect.ValueOf(d))
parsedTime(r, pkg) ==
    [set |-> r.err = NoError /\ pkg = "time", val |-> r.val, err |-> r.err,
     panic |-> r.err = NoError /\ pkg # "time"]

\* scan's switch on f.Kind(): whether the field is set, to what, the parse
\* error, and whether f.Set panics.  A struct field is converted when its
\* type's name is "Time"; f.Set(reflect.ValueOf(d)) panics when that type is
\* not time.Time, d not being assignable to it.  (The struct types of this
\* model declare no float field.)
convert(f, vString) ==
    CASE f.Kind = "string" ->
            [set |-> TRUE, val |-> vString, err |-> NoError, panic |-> FALSE]
      [] IsUintKind(f.Kind) -> parsed(ParseUint(vString, f.Bits))
      [] IsIntKind(f.Kind) /\ f.TypeName = "Duration" ->
            parsedDuration(ParseDuration(vString), f.Bits)
      [] IsIntKind(f.Kind) /\ f.TypeName # "Duration" -> parsed(ParseInt(vString, f.Bits))
      [] f.Kind = "bool" -> parsed(ParseBool(vString))
      [] f.Kind = "struct" /\ f.TypeName = "Time" ->
            parsedTime(ParseTime(IF f.Format = sEmpty THEN UnixDate ELSE f.Format, vString),
                       f.Pkg)
      [] OTHER -> [set |-> FALSE, val |-> 0, err |-> NoError, panic |-> FALSE]

\* mutant: the field is set to what the parser returned before the error
\* is looked at
scanStep_SetFirst(typ, recv, sources, e, k) ==
    LET f == TypeFields(typ)[k]
        l == lookup(sources, e, f)
        r == resolve(l, f)
        c == convert(f, r.vString)
        callsMade == { <<p, k>> : p \in l.calls }
    IN  IF ~CanSet(f) THEN [rec |-> recv, err |-> NilErr, calls |-> {}, panic |-> FALSE]
        ELSE IF r.skip
            THEN [rec |-> recv, err |-> NilErr, calls |-> callsMade, panic |-> FALSE]
        ELSE IF c.err # NoError
            THEN [rec |-> [recv EXCEPT ![k] = c.val], calls |-> callsMade,
                  err |-> Error(typ, f.Name, f.Kind, r.vString, c.err), panic |-> FALSE]
        ELSE [rec |-> IF c.set THEN [recv EXCEPT ![k] = c.val] ELSE recv,
              err |-> NilErr, calls |-> callsMade, panic |-> c.panic]

\* mutant: a string field is appended to, not replaced
scanStep_Append(typ, recv, sources, e, k) ==
    LET f == TypeFields(typ)[k]
        l == lookup(sources, e, f)
        r == resolve(l, f)
        c == convert(f, r.vString)
        callsMade == { <<p, k>> : p \in l.calls }
    IN  IF ~CanSet(f) THEN [rec |-> recv, err |-> NilErr, calls |-> {}, panic |-> FALSE]
        ELSE IF r.skip
            THEN [rec |-> recv, err |-> NilErr, calls |-> callsMade, panic |-> FALSE]
        ELSE IF c.err # NoError
            THEN [rec |-> recv, calls |-> callsMade,
                  err |-> Error(typ, f.Name, f.Kind, r.vString, c.err), panic |-> FALSE]
        ELSE [rec |-> IF c.set
                          THEN [recv EXCEPT ![k] = IF f.Kind = "string"
                                                       THEN recv[k] \o c.val
                                                   ELSE c.val]
                      ELSE recv,
              err |-> NilErr, calls |-> callsMade, panic |-> c.panic]

\* scan's iteration for the settable field f, number k, from its switch on:
\* c is what the switch's case makes of the raw value vString
scanConverted(typ, recv, k, f, callsMade, vString, c) ==
    IF c.err # NoError
        THEN [rec |-> recv, calls |-> callsMade,
              err |-> Error(typ, f.Name, f.Kind, vString, c.err), panic |-> FALSE]
    ELSE [rec |-> IF c.set THEN [recv EXCEPT ![k] = c.val] ELSE recv,
          err |-> NilErr, calls |-> callsMade, panic |-> c.panic]

\* the same from the default tag on: r is the raw value resolved
scanResolved(typ, recv, k, f, callsMade, r) ==
    IF r.skip THEN [rec |-> recv, err |-> NilErr, calls |-> callsMade, panic |-> FALSE]
    ELSE scanConverted(typ, recv, k, f, callsMade, r.vString, convert(f, r.vString))

\* the same after scn.lookup returned l
scanLooked(typ, recv, k, f, l) ==
    scanResolved(typ, recv, k, f, { <<p, k>> : p \in l.calls }, resolve(l, f))

\* one iteration of scan's loop over the fields, for field k of struct recv
\* of type typ: the struct afterwards, the error returned (NilErr: none, the
\* loop goes on) and the Lookup calls made
scanStep(typ, recv, sources, e, k) ==
    IF ~CanSet(TypeFields(typ)[k])
        THEN [rec |-> recv, err |-> NilErr, calls |-> {}, panic |-> FALSE]
    ELSE scanLooked(typ, recv, k, TypeFields(typ)[k],
                    lookup(sources, e, TypeFields(typ)[k]))

\* mutant: a map source forgets what it has been asked for
afterLookup_Consume(src) ==
    IF src.kind = "mapSrc" THEN [src EXCEPT !.m = NoKeys] ELSE src

\* a source after a call of its Lookup: the methods of envSrc, mapSrc and
\* errSrc assign to nothing
afterLookup(src) == src

\* a source after a call of its Err
afterErr(src) == src

\* the sources after Err was called on those at the positions of K
afterErrs(sources, K) ==
    [k \in 1..Len(sources) |-> IF k \in K THEN afterErr(sources[k]) ELSE sources[k]]

\* the sources after the Lookup calls C, pairs of position and field
afterLookups(sources, C) ==
    [k \in 1..Len(sources) |->
        IF \E c \in C : c[1] = k THEN afterLookup(sources[k]) ELSE sources[k]]

(***************************************************************************)
(* The state machine: a caller constructs sources, then calls Load.        *)
(***************************************************************************)
\* no second call is under way
NoCall ==
    [pc |-> "idle", v |-> [ptr |-> FALSE, kind |-> "int", typ |-> "int", val |-> << >>],
     rec |-> << >>, i |-> 0, err |-> NilErr]

\* the caller has a destination of D, in an environment of E and with a
\* file system of F
Start(D, E, F) ==
    /\ env \in E
    /\ v \in D
    /\ rec = v.val
    /\ pre = v.val
    /\ made = << >>
    /\ s = << >>
    /\ pc = "setup"
    /\ i = 0
    /\ err = NilErr
    /\ errCalls = {}
    /\ lookupCalls = {}
    /\ files \in F
    /\ args = << >>
    /\ calls = 0
    /\ prev = [rec |-> v.val, err |-> NilErr]
    /\ other = NoCall

Init == Start(Dests, Envs, {Files})

\* a constructor called with argument arg returns src
construct(src, arg) ==
    /\ pc = "setup"
    /\ Len(made) < MaxSources
    /\ made' = Append(made, src)
    /\ args' = Append(args, arg)
    /\ UNCHANGED <<env, v, rec, pre, s, pc, i, err, errCalls, lookupCalls, files,
                   calls, prev, other>>

\* FromEnv(p)
FromEnv ==
    \E p \in Prefixes :
        construct([kind |-> "envSrc", prefix |-> p], [fn |-> "FromEnv", p |-> p])

\* FromMap(m)
FromMap ==
    \E m \in Maps :
        construct([kind |-> "mapSrc", m |-> m], [fn |-> "FromMap", m |-> m])

\* Err(e)
Err ==
    \E e \in TerminalErrors \cup {NilErr} :
        construct([kind |-> "errSrc", e |-> e], [fn |-> "Err", e |-> e])

\* FromMap(m), for maps with values for fields of struct types
FromMapDated ==
    \E m \in DateMaps :
        construct([kind |-> "mapSrc", m |-> m], [fn |-> "FromMap", m |-> m])

\* FromMap(m), for maps with a value for a field of Sized; a source that
\* follows another holds a value that converts
FromMapSized ==
    \E m \in (IF made = << >> THEN SizedMaps ELSE LaterMaps) :
        construct([kind |-> "mapSrc", m |-> m], [fn |-> "FromMap", m |-> m])

\* appconfig.FromEnv("APP_") of the README
FromEnvReadme ==
    construct([kind |-> "envSrc", prefix |-> ToUpper(sApp)],
              [fn |-> "FromEnv", p |-> ToUpper(sApp)])

\* appconfig.FromFile("local.conf") of the README
FromFileReadme ==
    construct(FromFileSource(files, "local.conf"),
              [fn |-> "FromFile", path |-> "local.conf"])

\* FromEnv(p), as the only source, for prefixes in any letter case
FromEnvCased ==
    /\ made = << >>
    /\ \E p \in CasedPrefixes :
        construct([kind |-> "envSrc", prefix |-> p], [fn |-> "FromEnv", p |-> p])

\* FromReader(reader), as the only source
FromReader ==
    /\ made = << >>
    /\ \E r \in Readers :
        construct(FromReaderSource(r), [fn |-> "FromReader", reader |-> r])

\* FromFile(path), as the only source
FromFile ==
    /\ made = << >>
    /\ \E p \in DOMAIN files :
        construct(FromFileSource(files, p), [fn |-> "FromFile", path |-> p])

\* Err(e), as the only source
ErrOnly ==
    /\ made = << >>
    /\ \E e \in TerminalErrors \cup {NilErr} :
        construct([kind |-> "errSrc", e |-> e], [fn |-> "Err", e |-> e])

Reverse(q) == [k \in 1..Len(q) |-> q[Len(q) + 1 - k]]

\* Load(v, s...), up to its call of scn.scan: the caller passes the sources
\* it constructed, in the order of their construction or the opposite one
Load ==
    /\ pc = "setup"
    /\ \E q \in {made, Reverse(made)} :
        /\ s' = q
        /\ IF ~IndirectIsStruct(v) THEN pc' = "panicked"
           ELSE IF Len(q) = 0 THEN pc' = "returned"
           ELSE pc' = "scan"
    /\ pre' = rec
    /\ err' = NilErr
    /\ calls' = 1
    /\ UNCHANGED <<env, made, v, rec, i, errCalls, lookupCalls, files, args, prev, other>>

\* scanner.scan up to its loop over the fields: the sources' terminal
\* errors, then reflect.ValueOf(v).Elem()
scanCheck ==
    /\ pc = "scan"
    /\ LET r == scanErrs(s)
       IN  /\ errCalls' = errCalls \cup r.calls
           /\ IF r.err # NilErr THEN pc' = "returned" /\ err' = r.err /\ i' = i
              ELSE IF ElemPanics(v) THEN pc' = "panicked" /\ err' = err /\ i' = i
              ELSE pc' = "fields" /\ err' = err /\ i' = 1
           /\ s' = afterErrs(s, r.calls)
    /\ UNCHANGED <<env, made, v, rec, pre, lookupCalls, files, args, calls, prev, other>>

\* one iteration of scan's loop over the fields
scanField ==
    /\ pc = "fields"
    /\ i <= Len(TypeFields(v.typ))
    /\ LET r == scanStep(v.typ, rec, s, env, i)
       IN  /\ rec' = r.rec
           /\ lookupCalls' = lookupCalls \cup r.calls
           /\ IF r.err # NilErr THEN pc' = "returned" /\ err' = r.err /\ i' = i
              ELSE IF r.panic THEN pc' = "panicked" /\ err' = err /\ i' = i
              ELSE pc' = pc /\ err' = err /\ i' = i + 1
           /\ s' = afterLookups(s, r.calls)
    /\ UNCHANGED <<env, made, v, pre, errCalls, files, args, calls, prev, other>>

\* Load(v, s...) once more, on the record as the call before left it and
\* with the same sources
LoadAgain ==
    /\ pc = "returned"
    /\ calls < MaxCalls
    /\ calls' = calls + 1
    /\ prev' = [rec |-> rec, err |-> err]
    /\ pc' = IF Len(s) = 0 THEN "returned" ELSE "scan"
    /\ pre' = rec
    /\ err' = NilErr
    /\ UNCHANGED <<env, made, v, rec, s, i, errCalls, lookupCalls, files, args, other>>

\* A second goroutine calls Load(v2, s...) on a record of its own and the
\* same sources, while or after the first call runs
LoadOther ==
    /\ pc # "setup"
    /\ other.pc = "idle"
    /\ \E d \in OtherDests :
        other' = [pc |-> IF ~IndirectIsStruct(d) THEN "panicked"
                         ELSE IF Len(s) = 0 THEN "returned"
                         ELSE "scan",
                  v |-> d, rec |-> d.val, i |-> 0, err |-> NilErr]
    /\ UNCHANGED <<env, made, v, rec, pre, s, pc, i, err, errCalls, lookupCalls,
                   files, args, calls, prev>>

\* scanCheck of the second call
scanCheckOther ==
    /\ other.pc = "scan"
    /\ LET r == scanErrs(s)
       IN  /\ other' = IF r.err # NilErr THEN [other EXCEPT !.pc = "returned", !.err = r.err]
                        ELSE IF ElemPanics(other.v) THEN [other EXCEPT !.pc = "panicked"]
                        ELSE [other EXCEPT !.pc = "fields", !.i = 1]
           /\ s' = afterErrs(s, r.calls)
    /\ UNCHANGED <<env, made, v, rec, pre, pc, i, err, errCalls, lookupCalls,
                   files, args, calls, prev>>

\* scanField of the second call
scanFieldOther ==
    /\ other.pc = "fields"
    /\ other.i <= Len(TypeFields(other.v.typ))
    /\ LET r == scanStep(other.v.typ, other.rec, s, env, other.i)
       IN  /\ other' = IF r.err # NilErr
                            THEN [other EXCEPT !.pc = "returned", !.err = r.err, !.rec = r.rec]
                        ELSE IF r.panic THEN [other EXCEPT !.pc = "panicked", !.rec = r.rec]
                        ELSE [other EXCEPT !.i = other.i + 1, !.rec = r.rec]
           /\ s' = afterLookups(s, r.calls)
    /\ UNCHANGED <<env, made, v, rec, pre, pc, i, err, errCalls, lookupCalls,
                   files, args, calls, prev>>

\* scanReturn of the second call
scanReturnOther ==
    /\ other.pc = "fields"
    /\ other.i > Len(TypeFields(other.v.typ))
    /\ other' = [other EXCEPT !.pc = "returned", !.err = NilErr]
    /\ UNCHANGED <<env, made, v, rec, pre, s, pc, i, err, errCalls, lookupCalls,
                   files, args, calls, prev>>

\* scan's return nil after the last field
scanReturn ==
    /\ pc = "fields"
    /\ i > Len(TypeFields(v.typ))
    /\ pc' = "returned"
    /\ err' = NilErr
    /\ UNCHANGED <<env, made, v, rec, pre, s, i, errCalls, lookupCalls, files, args, calls, prev, other>>

Next == FromEnv \/ FromMap \/ Err \/ Load \/ scanCheck \/ scanField \/ scanReturn

Spec == Init /\ [][Next]_vars

\* Load is called on the record up to MaxCalls times in a row
NextTwice == Next \/ LoadAgain

SpecTwice == Init /\ [][NextTwice]_vars

\* Load on records with fields of struct types
InitStructs == Start(StructDests, {NoKeys}, {Files})

NextStructs == FromMapDated \/ Load \/ scanCheck \/ scanField \/ scanReturn

SpecStructs == InitStructs /\ [][NextStructs]_vars

\* The README's usage: var conf is loaded from FromEnv("APP_") and
\* FromFile("local.conf")
InitReadme == Start(ConfDests, ReadmeEnvs, ReadmeFiles)

NextReadme ==
    FromEnvReadme \/ FromFileReadme \/ Load \/ scanCheck \/ scanField \/ scanReturn

SpecReadme == InitReadme /\ [][NextReadme]_vars

\* Load on a record with integer fields of several widths and fields of
\* every other kind
InitSized == Start(SizedDests, {NoKeys}, {Files})

NextSized == FromMapSized \/ Load \/ scanCheck \/ scanField \/ scanReturn

SpecSized == InitSized /\ [][NextSized]_vars

\* Two Load calls on different records share their sources, their steps
\* interleaved
InitShared == Start(SharedDests, {OneKey(ToUpper(sApp \o nString), sErr)}, {Files})

NextShared ==
    \/ FromEnv \/ FromMap \/ Load \/ scanCheck \/ scanField \/ scanReturn
    \/ LoadOther \/ scanCheckOther \/ scanFieldOther \/ scanReturnOther

SpecShared == InitShared /\ [][NextShared]_vars

\* Each adapter on its own: one source is constructed, by FromReader from
\* any stream of up to MaxLines lines, by FromFile, by FromEnv with any
\* prefix or by Err, and Load is called with it
NextAdapters ==
    \/ FromReader \/ FromFile \/ FromEnvCased \/ ErrOnly
    \/ Load \/ scanCheck \/ scanField \/ scanReturn

InitAdapters == Start(Dests, CasedEnvs, {Files})

SpecAdapters == InitAdapters /\ [][NextAdapters]_vars

(***************************************************************************)
(* Properties.                                                             *)
(***************************************************************************)
FS == TypeFields(v.typ)

FieldIdx == 1..Len(FS)

\* the destination is a pointer to a struct
IsRecord == v.ptr /\ v.kind = "struct"

\* positions of s whose source has a terminal error
Bad == { k \in 1..Len(s) : SourceErr(s[k]) # NilErr }

\* positions of s whose source reports found for field x
Hits(x) == { k \in 1..Len(s) : SourceLookup(s[k], env, FS[x]).found }

\* the raw value source k holds for field x
Raw(k, x) == SourceLookup(s[k], env, FS[x]).v

\* the index of the field an Error names
ErrField == CHOOSE x \in FieldIdx : FS[x].Name = err.fld

IsFieldError == err.t = "Error"

\* scan's loop got past field x without returning
Passed(x) == pc = "returned" /\ (err = NilErr \/ (IsFieldError /\ ErrField > x))

\* C1: when Load has returned and no source has a terminal error, a settable
\* field that two or more sources report found for holds the conversion of
\* the raw value of the earliest of them in the order of s (if scan got to
\* the field and that value converts), and its pre-call value otherwise:
\* never the value of a later source.
C1_SourcePriority ==
    (pc = "returned" /\ IsRecord /\ Bad = {}) =>
        \A x \in FieldIdx :
            (CanSet(FS[x]) /\ Cardinality(Hits(x)) >= 2) =>
                LET c == convert(FS[x], Raw(Min(Hits(x)), x))
                IN  rec[x] = IF c.set /\ Passed(x) THEN c.val ELSE pre[x]

\* C1 witness: Load returned nil with two sources holding different values
\* for a field, and the field holds the first one's
C1_Witness ==
    /\ pc = "returned" /\ IsRecord /\ err = NilErr
    /\ \E x \in FieldIdx :
        /\ CanSet(FS[x]) /\ Hits(x) = {1, 2}
        /\ Raw(1, x) # Raw(2, x)
        /\ convert(FS[x], Raw(1, x)).set /\ convert(FS[x], Raw(2, x)).set
        /\ rec[x] = convert(FS[x], Raw(1, x)).val
        /\ rec[x] # convert(FS[x], Raw(2, x)).val
        /\ rec[x] # pre[x]

\* C2: when Load has returned nil for a source list of any length without
\* terminal error, every settable field with a non-empty default tag that no
\* source reports found for holds the conversion of the default literal.
C2_DefaultFallback ==
    (pc = "returned" /\ IsRecord /\ Bad = {} /\ err = NilErr) =>
        \A x \in FieldIdx :
            (/\ CanSet(FS[x]) /\ FS[x].Default # sEmpty /\ Hits(x) = {}
             /\ convert(FS[x], FS[x].Default).set) =>
                rec[x] = convert(FS[x], FS[x].Default).val

\* C3: once Load is called, a settable field that no source reports found
\* for and that has no default tag keeps its pre-call value, and the error
\* Load returns does not name it.
C3_Untouched ==
    (pc # "setup" /\ v.kind = "struct") =>
        \A x \in FieldIdx :
            (CanSet(FS[x]) /\ Hits(x) = {} /\ FS[x].Default = sEmpty) =>
                /\ rec[x] = pre[x]
                /\ ~(IsFieldError /\ err.fld = FS[x].Name)

\* C3 witness: Load looked such a field up in every source, left its
\* pre-filled value alone and returned nil after setting another field
C3_Witness ==
    /\ pc = "returned" /\ IsRecord /\ err = NilErr /\ Len(s) = 2
    /\ \E x \in FieldIdx :
        /\ CanSet(FS[x]) /\ Hits(x) = {} /\ FS[x].Default = sEmpty
        /\ {<<1, x>>, <<2, x>>} \subseteq lookupCalls
        /\ rec[x] = pre[x] /\ rec[x] # ZeroValue[x]
    /\ \E y \in FieldIdx : rec[y] # pre[y]

\* C4: when a source passed to Load has a terminal error and the destination
\* is a pointer to a struct, Load neither panics nor reaches the fields: it
\* returns a non-nil error, no Lookup is called and no field changes.
C4_TerminalAbort ==
    (pc # "setup" /\ IsRecord /\ Bad # {}) =>
        /\ pc \in {"scan", "returned"}
        /\ pc = "returned" => (err # NilErr /\ ~IsFieldError)
        /\ lookupCalls = {}
        /\ rec = pre

\* C4 witness: Load returned a terminal error although an earlier source
\* holds a value for a field and a field has a default tag
C4_Witness ==
    /\ pc = "returned" /\ IsRecord /\ Bad = {2} /\ err \in TerminalErrors
    /\ \E x \in FieldIdx : CanSet(FS[x]) /\ Hits(x) = {1} /\ convert(FS[x], Raw(1, x)).set
    /\ \E y \in FieldIdx : CanSet(FS[y]) /\ FS[y].Default # sEmpty
    /\ rec = pre /\ lookupCalls = {}

\* C5: when several sources have a terminal error, Load returns the Err() of
\* the first of them in the order of s, whatever the order of construction.
C5_FirstError ==
    (pc = "returned" /\ IsRecord /\ Bad # {}) =>
        err = SourceErr(s[Min(Bad)])

\* C5 witness: two sources with different errors, the one passed first
\* constructed last, and Load returned the error of the one passed first
C5_Witness ==
    /\ pc = "returned" /\ IsRecord /\ Bad = {1, 2}
    /\ SourceErr(s[1]) # SourceErr(s[2])
    /\ s = Reverse(made) /\ s # made
    /\ err = SourceErr(s[1])

\* C6: Load on a destination that is no struct after one dereference panics
\* whatever the sources are, and calls no source's Err or Lookup.
C6_NonStructPanics ==
    (pc # "setup" /\ v.kind # "struct") =>
        pc = "panicked" /\ errCalls = {} /\ lookupCalls = {}

\* C6 witness: Load panicked on an int although a source has a terminal error
C6_Witness ==
    /\ pc = "panicked" /\ v.kind = "int" /\ ~v.ptr
    /\ Bad # {} /\ errCalls = {}

\* C7: Load never returns for a destination that is not a pointer to a
\* struct (it panics), whatever the source list is.
C7_NonPointerPanics ==
    pc = "returned" => IsRecord

\* C8: a source made by FromEnv reports found for a field if and only if the
\* variable uppercase(prefix + name) is in the environment with a non-empty
\* value.
C8_EnvFound ==
    \A k \in 1..Len(made) : made[k].kind = "envSrc" =>
        \A typ \in {"Fields", "Tagged", "BadTag"} :
            \A x \in 1..Len(TypeFields(typ)) :
                LET f == TypeFields(typ)[x]
                    key == ToUpper(made[k].prefix \o f.Name)
                IN  envSrc_Lookup(made[k], env, f).found
                        <=> (key \in DOMAIN env /\ env[key] # sEmpty)

\* the raw value the binding resolves for field x: that of the first source
\* that reports found, else the default literal
Resolved(x) == IF Hits(x) # {} THEN Raw(Min(Hits(x)), x) ELSE FS[x].Default

HasValue(x) == Hits(x) # {} \/ FS[x].Default # sEmpty

\* the settable fields whose resolved raw value does not convert
Failing == { x \in FieldIdx :
                CanSet(FS[x]) /\ HasValue(x) /\ convert(FS[x], Resolved(x)).err # NoError }

\* C9: when Load has returned and some settable field resolves a raw value
\* that does not convert (no source having a terminal error), the error is
\* an Error for the first such field in declared order, carrying the type
\* name, the field's name and kind, that raw value and the parse error.
C9_FieldError ==
    (pc = "returned" /\ IsRecord /\ Bad = {} /\ Failing # {}) =>
        LET x == Min(Failing)
        IN  err = Error(v.typ, FS[x].Name, FS[x].Kind, Resolved(x),
                        convert(FS[x], Resolved(x)).err)

\* C10: when Load has returned an Error for field F, a settable field before
\* F that resolved a value holds its conversion, and F and every field after
\* it hold their pre-call values.
C10_NoRollback ==
    (pc = "returned" /\ IsFieldError) =>
        \A x \in FieldIdx :
            /\ (x < ErrField /\ CanSet(FS[x]) /\ HasValue(x)) =>
                    LET c == convert(FS[x], Resolved(x))
                    IN  rec[x] = IF c.set THEN c.val ELSE pre[x]
            /\ x >= ErrField => rec[x] = pre[x]

\* C10 witness: Load returned an Error for a pre-filled field that kept its
\* value, a field before it was changed, and a field after it kept its
\* value although a source or default holds a convertible value for it
C10_Witness ==
    /\ pc = "returned" /\ IsFieldError
    /\ rec[ErrField] = pre[ErrField] /\ rec[ErrField] # ZeroValue[ErrField]
    /\ \E x \in FieldIdx : x < ErrField /\ rec[x] # pre[x]
    /\ \E y \in FieldIdx :
        /\ y > ErrField /\ CanSet(FS[y]) /\ HasValue(y)
        /\ convert(FS[y], Resolved(y)).set
        /\ convert(FS[y], Resolved(y)).val # pre[y]
        /\ rec[y] = pre[y]

(***************************************************************************)
(* The adapters, each on its own (SpecAdapters).                           *)
(***************************************************************************)
\* the one source constructed was made by constructor fn
MadeBy(fn) == Len(made) = 1 /\ args[1].fn = fn

\* the stream handed to FromReader was read to its end without an error
ReadOk == MadeBy("FromReader") /\ args[1].reader.err = NilErr

\* field names looked up in the constructed source
nNovalue == <<"N","o","v","a","l","u","e">>
nOnlykey == <<"O","n","l","y","k","e","y">>
ProbeNames == { nUint, ToUpper(nUint), nString, nNovalue, nOnlykey }

\* made[1].Lookup of a field named n
Probe(n) == SourceLookup(made[1], env, Field(n, "string", "string", 0, sEmpty))

\* line l has the form key=value: position k holds its first '=' and
\* something stands before it
FirstEq(l, k) == k \in 2..Len(l) /\ l[k] = "=" /\ \A j \in 1..(k - 1) : l[j] # "="
IsKV(l) == \E k \in 1..Len(l) : FirstEq(l, k)
KeyOf(l) == SubSeq(l, 1, (CHOOSE k \in 1..Len(l) : FirstEq(l, k)) - 1)
ValueOf(l) == SubSeq(l, (CHOOSE k \in 1..Len(l) : FirstEq(l, k)) + 1, Len(l))

\* the lines of the stream that are key=value lines for field name n
LinesFor(n) ==
    { k \in 1..Len(args[1].reader.lines) :
        /\ IsKV(args[1].reader.lines[k])
        /\ ToLower(KeyOf(args[1].reader.lines[k])) = ToLower(n) }

\* C11: a stream read without error yields a source that reports found
\* exactly for the field names whose lowercase form is the lowercase key of
\* some key=value line (key: the non-empty text before the first '=',
\* value: everything after it), and returns such a line's value unchanged;
\* lines of any other form add nothing.
C11_ReaderRoundTrip ==
    ReadOk =>
        \A n \in ProbeNames :
            /\ Probe(n).found <=> LinesFor(n) # {}
            /\ Probe(n).found =>
                   \E k \in LinesFor(n) : Probe(n).v = ValueOf(args[1].reader.lines[k])

\* a line with nothing before '=' is followed by a line whose value holds
\* a second '=': the field is found with the value "a=b"
C11_Witness ==
    /\ ReadOk
    /\ args[1].reader.lines = <<lNoKey, lUintAB>>
    /\ Probe(nUint).found
    /\ Probe(nUint).v = <<"a","=","b">>

\* C12: a line 'novalue=' makes the source report found with the empty
\* string for that key; a line 'onlykey' without '=' leaves that key not
\* found.
C12_ReaderBoundary ==
    ReadOk =>
        /\ (\E k \in 1..Len(args[1].reader.lines) : args[1].reader.lines[k] = lNovalue)
               => Probe(nNovalue) = [v |-> sEmpty, found |-> TRUE]
        /\ (\E k \in 1..Len(args[1].reader.lines) : args[1].reader.lines[k] = lOnlykey)
               => ~Probe(nOnlykey).found

C12_Witness ==
    /\ ReadOk
    /\ args[1].reader.lines = <<lNovalue, lOnlykey>>
    /\ Probe(nNovalue).found
    /\ ~Probe(nOnlykey).found

\* the one source was made by FromFile from a path that cannot be opened
Missing == MadeBy("FromFile") /\ ~files[args[1].path].opens

\* the settable fields whose default literal does not convert
BadDefaults ==
    { x \in FieldIdx : /\ CanSet(FS[x])
                       /\ FS[x].Default # sEmpty
                       /\ convert(FS[x], FS[x].Default).err # NoError }

\* C13: FromFile on a path that cannot be opened returns a source whose
\* Err() is nil and whose Lookup reports not found for every field; Load
\* with only that source leaves the fields without default tag unchanged
\* and returns nil, unless the default literal of a settable field does not
\* convert: then it returns the Error of the first such field.
C13_MissingFile ==
    Missing =>
        /\ SourceErr(made[1]) = NilErr
        /\ \A n \in ProbeNames : ~Probe(n).found
        /\ (IsRecord /\ pc = "returned") =>
               /\ \A x \in FieldIdx : ~SourceLookup(s[1], env, FS[x]).found
               /\ \A x \in FieldIdx : FS[x].Default = sEmpty => rec[x] = pre[x]
               /\ BadDefaults = {} => err = NilErr
               /\ BadDefaults # {} =>
                      /\ IsFieldError
                      /\ err.fld = FS[Min(BadDefaults)].Name

\* Load has returned nil for a record whose fields carry no default tag and
\* for the only source FromFile(":$:"); the record is as it was
C13_Witness ==
    /\ Missing
    /\ args[1].path = ":$:"
    /\ IsRecord
    /\ v.typ = "Fields"
    /\ pc = "returned"
    /\ err = NilErr
    /\ rec = Prefilled

\* C13 as stated: Load with only the source of a path that cannot be
\* opened returns nil, whatever the record's default tags
C13_MissingFileNil ==
    (Missing /\ IsRecord /\ pc = "returned") => err = NilErr

\* the one source is FromEnv(prefix)
FromEnvOnly == MadeBy("FromEnv")

\* C18: the variable FromEnv(prefix) consults for a field is the uppercase
\* of the prefix followed at once by the uppercase of the field name, so
\* prefixes that differ in letter case only give the same result for every
\* field and every environment.
C18_EnvName ==
    FromEnvOnly =>
        \A n \in ProbeNames :
            /\ Probe(n) = LookupEnv(env, ToUpper(args[1].p) \o ToUpper(n))
            /\ \A p2 \in CasedPrefixes :
                   ToLower(p2) = ToLower(args[1].p) =>
                       envSrc_Lookup([kind |-> "envSrc", prefix |-> p2], env,
                                     Field(n, "string", "string", 0, sEmpty)) = Probe(n)

\* FromEnv("app_") finds the field String in APP_STRING
C18_Witness ==
    /\ FromEnvOnly
    /\ args[1].p = sApp
    /\ ToUpper(sApp) \o ToUpper(nString) \in DOMAIN env
    /\ Probe(nString).found
    /\ ~Probe(nUint).found

\* the stream handed to FromReader ended in a read error
ReadFailed == MadeBy("FromReader") /\ args[1].reader.err # NilErr

\* C20: when the reader fails with a read error, the source FromReader
\* returns has that error as its Err() and reports not found for every
\* field, the keys of the lines read before the failure too, and Load with
\* that source returns the error without scanning a field; a source made by
\* Err(e) reports not found for every field, whatever e is, nil too.
C20_ReadFailure ==
    /\ ReadFailed =>
           /\ SourceErr(made[1]) = args[1].reader.err
           /\ \A n \in ProbeNames : ~Probe(n).found
           /\ pc # "fields"
           /\ lookupCalls = {}
           /\ pc = "returned" => (err = args[1].reader.err /\ rec = v.val)
    /\ MadeBy("Err") =>
           /\ SourceErr(made[1]) = args[1].e
           /\ \A n \in ProbeNames : ~Probe(n).found

\* a stream failed after the line UINT=1 was read, and Load on a record
\* has returned the read error
C20_Witness ==
    /\ ReadFailed
    /\ args[1].reader.lines = <<lUINT1>>
    /\ IsRecord
    /\ pc = "returned"
    /\ err = ErrTimeout

(***************************************************************************)
(* Load called again (SpecTwice).                                          *)
(***************************************************************************)
\* C14: when a second or later call of Load on the same record with the
\* same sources has returned, it returned the error the call before
\* returned and every field holds the value it held after the call before.
C14_Idempotent ==
    (calls >= 2 /\ pc = "returned") => (err = prev.err /\ rec = prev.rec)

\* the second call has returned nil after binding a string field from a
\* source, and the first call had changed the record
C14_Witness ==
    /\ calls = 2
    /\ pc = "returned"
    /\ IsRecord
    /\ err = NilErr
    /\ Hits(1) # {}
    /\ prev.rec # v.val

(***************************************************************************)
(* Fields that scan passes over (Spec).                                    *)
(***************************************************************************)
\* the fields whose name starts with a lower-case letter
Unexported == { x \in FieldIdx : IsIn(FS[x].Name[1], Lowers) }

\* C15: Load never calls a source's Lookup for an unexported field, never
\* changes the field's value, whether a source holds a matching key or the
\* field has a default tag, and never returns a field error naming it.
C15_UnexportedSkipped ==
    v.kind = "struct" =>
        \A x \in Unexported :
            /\ \A p \in 1..Len(s) : <<p, x>> \notin lookupCalls
            /\ rec[x] = v.val[x]
            /\ IsFieldError => err.fld # FS[x].Name

\* Load has returned nil for a record whose unexported field has a default
\* tag and a source that holds a key for it
C15_Witness ==
    /\ IsRecord
    /\ v.typ = "Tagged"
    /\ pc = "returned"
    /\ err = NilErr
    /\ \E x \in Unexported : Hits(x) # {} /\ FS[x].Default # sEmpty /\ rec[x] = 0

(***************************************************************************)
(* Fields of struct types (SpecStructs).                                   *)
(***************************************************************************)
\* the settable fields whose declared type is a struct other than time.Time
OtherStructs ==
    { x \in FieldIdx : /\ CanSet(FS[x])
                       /\ FS[x].Kind = "struct"
                       /\ ~(FS[x].TypeName = "Time" /\ FS[x].Pkg = "time") }

\* C16: for a settable field whose declared type is a struct other than
\* time.Time, whatever the type's name, and whatever raw value a source or
\* the default supplies, Load returns no error naming the field, does not
\* panic at it and leaves its value untouched.
C16_OtherStructIgnored ==
    IsRecord =>
        \A x \in OtherStructs :
            /\ rec[x] = v.val[x]
            /\ IsFieldError => err.fld # FS[x].Name
            /\ ~(pc = "panicked" /\ i = x)

(***************************************************************************)
(* The README's usage (SpecReadme).                                        *)
(***************************************************************************)
\* Load(&conf, FromEnv("APP_"), FromFile("local.conf")) has returned, with
\* the README's environment and local.conf
ReadmeDone ==
    /\ env = EnvOf(ReadmeVars)
    /\ files["local.conf"].opens
    /\ files["local.conf"].reader.lines = ReadmeLines
    /\ Len(s) = 2
    /\ s[1].kind = "envSrc"
    /\ s[2] = FromFileSource(files, "local.conf")
    /\ pc = "returned"

\* C17: in the README's usage Load returns nil and leaves Timeout = 1h2m3s,
\* WorkerName = "Monkey" and NumWorkers = 10: the field absent from the
\* environment is filled from the file's line APP_NUMWORKERS=10.
C17_Readme ==
    ReadmeDone =>
        /\ err = NilErr
        /\ rec[1] = Duration(FALSE, <<0, 723000, 3>>)
        /\ rec[3] = sMonkey
        /\ rec[4] = 10

(***************************************************************************)
(* Two calls that share their sources (SpecShared).                        *)
(***************************************************************************)
\* scan's loop from field k on, run without interruption: how it ends
RECURSIVE runFields(_, _, _, _, _)
runFields(typ, recv, sources, e, k) ==
    IF k > Len(TypeFields(typ)) THEN [pc |-> "returned", err |-> NilErr, rec |-> recv]
    ELSE LET r == scanStep(typ, recv, sources, e, k)
         IN  IF r.err # NilErr THEN [pc |-> "returned", err |-> r.err, rec |-> r.rec]
             ELSE IF r.panic THEN [pc |-> "panicked", err |-> NilErr, rec |-> r.rec]
             ELSE runFields(typ, r.rec, sources, e, k + 1)

\* Load(dest, sources...) run alone on a record holding recv
RunAlone(dest, recv, sources, e) ==
    IF ~IndirectIsStruct(dest) THEN [pc |-> "panicked", err |-> NilErr, rec |-> recv]
    ELSE IF Len(sources) = 0 THEN [pc |-> "returned", err |-> NilErr, rec |-> recv]
    ELSE IF scanErrs(sources).err # NilErr
        THEN [pc |-> "returned", err |-> scanErrs(sources).err, rec |-> recv]
    ELSE IF ElemPanics(dest) THEN [pc |-> "panicked", err |-> NilErr, rec |-> recv]
    ELSE runFields(dest.typ, recv, sources, e, 1)

\* the sources as the caller constructed them and passed them to Load
Passed2 == IF s = made THEN made ELSE Reverse(made)

\* C19: no call of Lookup or Err changes a source, so when two Load calls
\* on different records share their sources and interleave their steps in
\* any order, each ends with the error and the record it ends with when
\* run alone.
C19_SharedSources ==
    /\ pc # "setup" => s \in {made, Reverse(made)}
    /\ pc \in {"returned", "panicked"} =>
           [pc |-> pc, err |-> err, rec |-> rec] = RunAlone(v, pre, Passed2, env)
    /\ other.pc \in {"returned", "panicked"} =>
           [pc |-> other.pc, err |-> other.err, rec |-> other.rec]
               = RunAlone(other.v, other.v.val, Passed2, env)

\* the second call began after the first and has ended in a field error
\* while the first is in the middle of its fields, a source holding a key
\* both records have a field for
C19_Witness ==
    /\ pc = "fields"
    /\ i > 1
    /\ rec # v.val
    /\ other.pc = "returned"
    /\ other.err # NilErr
    /\ \E k \in 1..Len(s) : s[k].kind = "mapSrc" /\ ToLower(nString) \in DOMAIN s[k].m

(***************************************************************************)
(* The order of the sources (Spec).                                        *)
(***************************************************************************)
\* the source lists that hold the sources of q in any order
Perms(q) ==
    { [k \in 1..Len(q) |-> q[p[k]]] :
        p \in { f \in [1..Len(q) -> 1..Len(q)] :
                    \A a, b \in 1..Len(q) : f[a] = f[b] => a = b } }

\* no field of the record's type is reported found by two sources of s
Disjoint == \A x \in FieldIdx : Cardinality(Hits(x)) <= 1

\* C21: when Load has ended on sources without terminal error of which no
\* two report found for the same field, it has ended (returned or panicked)
\* with the error and the record that Load ends with for every permutation
\* of the source list.
C21_OrderIndependent ==
    (pc \in {"returned", "panicked"} /\ v.kind = "struct" /\ Bad = {} /\ Disjoint) =>
        \A q \in Perms(s) :
            [pc |-> pc, err |-> err, rec |-> rec] = RunAlone(v, pre, q, env)

\* C21 witness: Load returned nil for two sources passed in the opposite
\* order of their construction, each the only one to hold a value for a
\* field of its own, and both fields were changed
C21_Witness ==
    /\ pc = "returned" /\ IsRecord /\ err = NilErr /\ Bad = {} /\ Disjoint
    /\ Len(s) = 2 /\ s = Reverse(made) /\ s # made
    /\ \E x, y \in FieldIdx :
        /\ x # y /\ CanSet(FS[x]) /\ CanSet(FS[y])
        /\ Hits(x) = {1} /\ Hits(y) = {2}
        /\ rec[x] # pre[x] /\ rec[y] # pre[y]

(***************************************************************************)
(* Conversions on a record with fields of every kind (SpecSized).          *)
(***************************************************************************)
\* an integer field parsed as a base-10 number
Ordinary(f) == IsUintKind(f.Kind) \/ (IsIntKind(f.Kind) /\ f.TypeName # "Duration")

HasSign(str) == str # sEmpty /\ str[1] \in {"+", "-"}

Unsigned(str) == IF HasSign(str) THEN Tail(str) ELSE str

\* str is an optional sign and one or more decimal digits
WellFormed(str) ==
    Unsigned(str) # sEmpty /\ \A k \in 1..Len(Unsigned(str)) : IsIn(Unsigned(str)[k], Digits)

\* the number the first k digits of str denote
RECURSIVE Numeral(_, _)
Numeral(str, k) ==
    IF k = 0 THEN 0 ELSE Numeral(str, k - 1) * 10 + (IndexOf(str[k], Digits) - 1)

\* the number a well-formed str denotes
NumberOf(str) ==
    IF str[1] = "-" THEN 0 - Numeral(Unsigned(str), Len(Unsigned(str)))
    ELSE Numeral(Unsigned(str), Len(Unsigned(str)))

\* the number str denotes is one of the W bits of field f, and str carries
\* no sign if f is unsigned
Fits(f, str) ==
    IF IsUintKind(f.Kind)
        THEN ~HasSign(str) /\ NumberOf(str) >= 0 /\ NumberOf(str) <= Pow2(f.Bits) - 1
    ELSE NumberOf(str) >= 0 - Pow2(f.Bits - 1) /\ NumberOf(str) <= Pow2(f.Bits - 1) - 1

\* Load is through with field x: it went on to the next field, or returned
\* nil or the Error of x or of a later field
Reached(x) ==
    \/ pc = "fields" /\ i > x
    \/ pc = "returned" /\ (err = NilErr \/ (IsFieldError /\ ErrField >= x))

\* C22: when Load is through with a settable integer field of width W that
\* is not a Duration and whose resolved raw value is a well-formed base-10
\* number, then either the number is one of W bits (and carries no sign if
\* the field is unsigned) and the field holds exactly that number, or Load
\* has returned the Error of that field with that raw value and the field
\* holds its pre-call value.
C22_WidthChecked ==
    (IsRecord /\ Bad = {}) =>
        \A x \in FieldIdx :
            (/\ CanSet(FS[x]) /\ Ordinary(FS[x]) /\ HasValue(x)
             /\ WellFormed(Resolved(x)) /\ Reached(x)) =>
                IF Fits(FS[x], Resolved(x)) THEN rec[x] = NumberOf(Resolved(x))
                ELSE /\ pc = "returned" /\ IsFieldError /\ ErrField = x
                     /\ err.val = Resolved(x)
                     /\ rec[x] = pre[x]

\* the same for the calls of Load with one source or more
WidthCheckedWithSources == Len(s) >= 1 => C22_WidthChecked

\* Load returned the Error of an integer field for a number one past the end
\* of its range and left the field alone, after it stored in an integer
\* field before it the number a source holds
WidthCheckedCase ==
    /\ pc = "returned" /\ IsRecord /\ IsFieldError
    /\ Ordinary(FS[ErrField]) /\ WellFormed(Resolved(ErrField))
    /\ ~Fits(FS[ErrField], Resolved(ErrField))
    /\ rec[ErrField] = pre[ErrField]
    /\ \E y \in FieldIdx :
        /\ y < ErrField /\ Ordinary(FS[y]) /\ Hits(y) # {}
        /\ WellFormed(Resolved(y)) /\ Fits(FS[y], Resolved(y))
        /\ rec[y] = NumberOf(Resolved(y)) /\ rec[y] # pre[y]

\* the kinds of field whose conversion rejects the empty string: numbers,
\* booleans, durations and timestamps
RejectsEmpty(f) ==
    \/ IsUintKind(f.Kind) \/ IsIntKind(f.Kind) \/ f.Kind = "bool"
    \/ (f.Kind = "struct" /\ f.TypeName = "Time")

\* C23: when Load is through with a settable field for which the first
\* source that reports found holds the empty string, no later source was
\* asked for the field, a string field holds the empty string (not its
\* default literal), and for a number, boolean, duration or timestamp Load
\* has returned the Error of that field with the empty string as its raw
\* value, the field keeping its pre-call value.
C23_EmptyIsValue ==
    (IsRecord /\ Bad = {}) =>
        \A x \in FieldIdx :
            (/\ CanSet(FS[x]) /\ Hits(x) # {} /\ Raw(Min(Hits(x)), x) = sEmpty
             /\ Reached(x)) =>
                /\ \A k \in 1..Len(s) : k > Min(Hits(x)) => <<k, x>> \notin lookupCalls
                /\ FS[x].Kind = "string" => rec[x] = sEmpty
                /\ RejectsEmpty(FS[x]) =>
                       /\ pc = "returned" /\ IsFieldError /\ ErrField = x
                       /\ err.val = sEmpty
                       /\ rec[x] = pre[x]

\* C23 witness: the first of two sources holds the empty string for a
\* field that is no string and has a default tag, the second a value that
\* converts; Load returned the Error of that field for the empty string
\* without asking the second, after it set a field before it
C23_Witness ==
    /\ pc = "returned" /\ IsRecord /\ IsFieldError /\ Len(s) = 2
    /\ Hits(ErrField) = {1, 2}
    /\ Raw(1, ErrField) = sEmpty /\ Raw(2, ErrField) # sEmpty
    /\ convert(FS[ErrField], Raw(2, ErrField)).set
    /\ FS[ErrField].Default # sEmpty /\ RejectsEmpty(FS[ErrField])
    /\ err.val = sEmpty
    /\ <<1, ErrField>> \in lookupCalls /\ <<2, ErrField>> \notin lookupCalls
    /\ rec[ErrField] = pre[ErrField]
    /\ \E y \in FieldIdx : y < ErrField /\ rec[y] # pre[y]

(***************************************************************************)
(* Default literals (Spec).                                                *)
(***************************************************************************)
\* the settable fields that no source reports found for and whose default
\* literal does not convert
BadDefault == { x \in FieldIdx :
                   /\ CanSet(FS[x]) /\ Hits(x) = {} /\ FS[x].Default # sEmpty
                   /\ convert(FS[x], FS[x].Default).err # NoError }

\* C24: when Load is through with a settable field that no source reports
\* found for and whose default tag holds a literal that does not convert to
\* the field's type, Load has returned the Error that names that field and
\* carries the default literal as its raw value, and the field holds its
\* pre-call value.
C24_BadDefault ==
    (IsRecord /\ Bad = {}) =>
        \A x \in BadDefault :
            Reached(x) =>
                /\ pc = "returned"
                /\ err = Error(v.typ, FS[x].Name, FS[x].Kind, FS[x].Default,
                               convert(FS[x], FS[x].Default).err)
                /\ rec[x] = pre[x]

\* the same for the calls of Load with one source or more
BadDefaultWithSources == Len(s) >= 1 => C24_BadDefault

\* Load, called with sources, returned the Error of a field for its default
\* literal, left the field alone and had set a field before it
BadDefaultCase ==
    /\ pc = "returned" /\ IsRecord /\ Bad = {} /\ Len(s) >= 1
    /\ IsFieldError /\ ErrField \in BadDefault
    /\ err.val = FS[ErrField].Default
    /\ rec[ErrField] = pre[ErrField]
    /\ \E y \in FieldIdx : y < ErrField /\ rec[y] # pre[y]

(***************************************************************************)
(* Keys that a stream holds more than once (SpecAdapters).                 *)
(***************************************************************************)
\* C25: a stream read without error yields a source whose map has no two
\* keys that are equal after lowercasing, and for a field name that several
\* key=value lines match after lowercasing it returns the value of the
\* last of them in the order of the stream.
C25_LastLineWins ==
    ReadOk =>
        /\ made[1].kind = "mapSrc"
        /\ \A a, b \in DOMAIN made[1].m : ToLower(a) = ToLower(b) => a = b
        /\ \A n \in ProbeNames :
               LinesFor(n) # {} =>
                   Probe(n).v = ValueOf(args[1].reader.lines[Max(LinesFor(n))])

\* C25 witness: two lines whose keys differ in letter case only hold
\* different values; the map has the one key "uint" and the field is found
\* with the value of the second line
C25_Witness ==
    /\ ReadOk
    /\ args[1].reader.lines = <<lUintErr, lUINT1>>
    /\ LinesFor(nUint) = {1, 2}
    /\ DOMAIN made[1].m = {ToLower(nUint)}
    /\ Probe(nUint).found /\ Probe(nUint).v = s1

(***************************************************************************)
(* Fields of a type named Duration (SpecSized).                            *)
(***************************************************************************)
\* a signed integer field that scan parses with time.ParseDuration
IsDuration(f) == IsIntKind(f.Kind) /\ f.TypeName = "Duration"

\* the count of nanoseconds d is one of a signed integer of the given width
FitsWidth(d, bits) ==
    \/ bits = 64
    \/ ~Greater(d.mag, <<Pow2(bits - 1) - 1>>)
    \/ (d.neg /\ d.mag = <<Pow2(bits - 1)>>)

\* what a field of the given width holds, as a count of nanoseconds
CountOf(val, bits) ==
    IF bits = 64 THEN val
    ELSE Duration(val < 0, IF val = 0 THEN << >> ELSE <<IF val < 0 THEN 0 - val ELSE val>>)

\* field x, if Load is through with it and it is a Duration, holds the
\* exact count of its literal or was refused
NoTruncationFor(x) ==
    (/\ CanSet(FS[x]) /\ IsDuration(FS[x]) /\ HasValue(x) /\ Reached(x)) =>
        IF /\ ParseDuration(Resolved(x)).err = NoError
           /\ FitsWidth(ParseDuration(Resolved(x)).val, FS[x].Bits)
            THEN CountOf(rec[x], FS[x].Bits) = ParseDuration(Resolved(x)).val
        ELSE /\ pc = "returned" /\ IsFieldError /\ ErrField = x
             /\ rec[x] = pre[x]

\* C26: when Load, called with one source or more, is through with a
\* settable signed integer field of a type named Duration, of any width W,
\* then either the resolved literal is a duration whose count of
\* nanoseconds is one of W bits and the field holds exactly that count, or
\* Load has returned the Error of that field and the field holds its
\* pre-call value: no count is stored truncated.
C26_NoTruncation ==
    (IsRecord /\ Bad = {} /\ Len(s) >= 1) => \A x \in FieldIdx : NoTruncationFor(x)

\* the same for the fields of 64 bits, time.Duration among them
NoTruncationAt64 ==
    (IsRecord /\ Bad = {} /\ Len(s) >= 1) =>
        \A x \in FieldIdx : FS[x].Bits = 64 => NoTruncationFor(x)

\* Load returned nil after it set a time.Duration of 64 bits to the count
\* of "1h2m3s"
NoTruncationCase ==
    /\ pc = "returned" /\ IsRecord /\ err = NilErr /\ Len(s) >= 1
    /\ \E x \in FieldIdx :
        /\ IsDuration(FS[x]) /\ FS[x].Bits = 64 /\ Hits(x) # {}
        /\ Resolved(x) = s1h2m3s
        /\ rec[x] = Duration(FALSE, <<0, 723000, 3>>)

====
